---- MODULE Spec2Model ----
(***************************************************************************)
(* Verification model of the configuration resolution engine               *)
(* (swift/llm/utils/argument.py) and of the conversation context-window    *)
(* manager and the barrier-fenced dataset load (swift/llm/utils/utils.py). *)
(***************************************************************************)
EXTENDS Integers, Sequences, FiniteSets, TLC

(***************************************************************************)
(* Bounds of the model.                                                    *)
(***************************************************************************)
\* longest conversation history built by repeated inference calls
MaxHist == 3
\* a string (query or response) is abstracted to its number of tokens, 1..MaxTok
MaxTok == 2
\* largest max_length handed to limit_history_length
MaxLimit == 8
\* most keyword arguments given to the constructor of an arguments object
MaxSupplied == 3
\* longest label sequence rendered by _get_labels_str
MaxLabels == 4
\* most tokens the model generates in one inference call
MaxGen == 3
\* longest history searched under arbitrary predicate outcomes
MaxSearch == 6
\* most nodes of a distributed launch
MaxNodes == 2
\* most ranks per node of a distributed launch
MaxLocal == 2

VARIABLES
    \* ---- context-window manager ----
    history,        \* the caller's history list (None or a sequence of turns)
    query,          \* query of the last limit_history_length call
    max_length,     \* max_length of the last limit_history_length call
    ret,            \* what the last limit_history_length call returned
    ret2,           \* what limit_history_length returned on ret's suffix
    hpc,            \* where the caller is: "idle", "returned", "again"
    \* ---- barrier-fenced dataset load ----
    topo,           \* the launch: [dist, nnodes, nproc]
    lpc,            \* rank -> where it is in _msdataset_ddp_load
    entered,        \* rank -> number of dist.barrier() calls it has entered
    loads,          \* rank -> number of _old_msdataset_load calls it has made
    \* ---- configuration resolution in one process ----
    args,           \* the arguments object under construction or resolved
    cls,            \* its class: "Sft", "Infer" or "Rome"
    apc,            \* "none", "new", "normalized", "identified", "resolved",
                    \* "failed"
    err,            \* the exception its construction raised, or "none"
    warnings,       \* the warnings logged while resolving it
    MODEL_MAPPING,  \* the model registry of the process
    bf16_supported, \* torch.cuda.is_bf16_supported()
    \* ---- SftArguments resolution by the ranks of a distributed launch ----
    proc,           \* rank -> its process: the line it is at, its arguments
                    \* object, its registry, its error, its warnings and
                    \* whether it has initialised the process group
    bcast,          \* the broadcast of line 178: the ranks that have entered
                    \* it and the string rank 0 sent
    \* ---- rendering of a label sequence ----
    labels,         \* the label sequence handed to _get_labels_str
    labels_str,     \* what the call returned
    gpc,            \* "idle", "returned" or "raised"
    \* ---- inference() and inference_stream() on the same prompt ----
    iquery,         \* the query of both calls
    start,          \* the history both calls start from (None or a list)
    generated,      \* the tokens the model generates for this prompt
    ires,           \* what inference() returned, None before it ran
    spc,            \* inference_stream(): "idle", "streaming" or "done"
    shistory,       \* the history list inference_stream() works on
    generate_ids,   \* the tokens inference_stream() has taken from gen
    yielded,        \* the pair inference_stream() yielded last, or None
    \* ---- limit_history_length() over an opaque template ----
    nturns,         \* len(history)
    outcomes,       \* outcomes[k]: compute_token_length(k) <= max_length
    sret,           \* what the search returned: value, probes, raised
    qpc             \* "idle" or "searched"

hvars == <<history, query, max_length, ret, ret2, hpc>>

lvars == <<topo, lpc, entered, loads>>

avars == <<args, cls, apc, err, warnings, MODEL_MAPPING, bf16_supported>>

dvars == <<proc, bcast>>

gvars == <<labels, labels_str, gpc>>

ivars == <<iquery, start, generated, ires, spc, shistory, generate_ids,
           yielded>>

svars == <<nturns, outcomes, sret, qpc>>

vars == <<hvars, lvars, avars, dvars, gvars, ivars, svars>>

(***************************************************************************)
(* Optional values: Python's None is the empty tuple, a present value v is *)
(* the one-element tuple <<v>>.                                            *)
(***************************************************************************)
None == <<>>

Some(v) == <<v>>

Get(o) == o[1]

Min(a, b) == IF a < b THEN a ELSE b

Max(a, b) == IF a > b THEN a ELSE b

(***************************************************************************)
(* Python list slicing s[lo:hi] (0-based, negative indices count from the  *)
(* end, out-of-range indices are clamped).  hi = None is the open slice.   *)
(***************************************************************************)
PyIndex(i, n) == IF i < 0 THEN Max(i + n, 0) ELSE Min(i, n)

PySlice(s, lo, hi) ==
    LET n == Len(s)
        a == IF lo = None THEN 0 ELSE PyIndex(Get(lo), n)
        b == IF hi = None THEN n ELSE PyIndex(Get(hi), n)
    IN  IF a >= b THEN <<>> ELSE SubSeq(s, a + 1, b)

(***************************************************************************)
(* Strings and turns.  A turn is the pair (query, response).               *)
(***************************************************************************)
Strs == 1..MaxTok

Turns == Strs \X Strs

RECURSIVE SumTokens(_)
SumTokens(h) ==
    IF h = <<>> THEN 0 ELSE h[1][1] + h[1][2] + SumTokens(Tail(h))

\* len(template.encode({'query': query, 'history': h})['input_ids'])
TemplateEncodeLen(q, h) == q + SumTokens(h)

(***************************************************************************)
(* compute_token_length, the closure of limit_history_length.  The assert  *)
(* on history_length = 0 is the result None (the call raised).             *)
(***************************************************************************)
compute_token_length_prefix(q, h, history_length) ==
    IF history_length = 0 THEN None
    ELSE Some(TemplateEncodeLen(q, PySlice(h, None, Some(history_length))))

compute_token_length(q, h, history_length) ==
    IF history_length = 0 THEN None
    ELSE Some(TemplateEncodeLen(q, PySlice(h, Some(-history_length), None)))

(***************************************************************************)
(* upper_bound(lo, hi, cond): the greatest value of lo..hi satisfying the  *)
(* monotone predicate cond, by bisection.  cond is a function on lo..hi    *)
(* whose value is Some(TRUE), Some(FALSE) or None (the predicate raised).  *)
(* The result records the value, the probed points in order and whether    *)
(* the predicate raised.                                                   *)
(***************************************************************************)
RECURSIVE upper_bound_loop(_, _, _, _)
upper_bound_loop(lo, hi, cond, probes) ==
    IF hi > lo
    THEN LET mid == (lo + hi + 1) \div 2
             c == cond[mid]
         IN  IF c = None
             THEN [value |-> lo, probes |-> Append(probes, mid), raised |-> TRUE]
             ELSE IF Get(c)
                  THEN upper_bound_loop(mid, hi, cond, Append(probes, mid))
                  ELSE upper_bound_loop(lo, mid - 1, cond, Append(probes, mid))
    ELSE [value |-> lo, probes |-> probes, raised |-> FALSE]

\* a search that probes every point from lo + 1 upwards
RECURSIVE upper_bound_linear_loop(_, _, _, _)
upper_bound_linear_loop(lo, hi, cond, probes) ==
    IF hi > lo
    THEN LET c == cond[lo + 1]
         IN  IF c = None
             THEN [value |-> lo, probes |-> Append(probes, lo + 1),
                   raised |-> TRUE]
             ELSE IF Get(c)
                  THEN upper_bound_linear_loop(lo + 1, hi, cond,
                                               Append(probes, lo + 1))
                  ELSE [value |-> lo, probes |-> Append(probes, lo + 1),
                        raised |-> FALSE]
    ELSE [value |-> lo, probes |-> probes, raised |-> FALSE]

upper_bound_linear(lo, hi, cond) == upper_bound_linear_loop(lo, hi, cond, <<>>)

\* a bisection whose midpoint is rounded down
RECURSIVE upper_bound_floor_loop(_, _, _, _)
upper_bound_floor_loop(lo, hi, cond, probes) ==
    IF hi > lo
    THEN LET mid == (lo + hi) \div 2
             c == cond[mid]
         IN  IF c = None
             THEN [value |-> lo, probes |-> Append(probes, mid), raised |-> TRUE]
             ELSE IF Get(c)
                  THEN upper_bound_floor_loop(mid + 1, hi, cond,
                                              Append(probes, mid))
                  ELSE upper_bound_floor_loop(lo, mid, cond,
                                              Append(probes, mid))
    ELSE [value |-> lo, probes |-> probes, raised |-> FALSE]

upper_bound_floor(lo, hi, cond) == upper_bound_floor_loop(lo, hi, cond, <<>>)

upper_bound(lo, hi, cond) == upper_bound_loop(lo, hi, cond, <<>>)

(***************************************************************************)
(* limit_history_length(template, query, history, max_length).             *)
(***************************************************************************)
limit_history_length_keep_head(q, hist, L) ==
    LET h == IF hist = None THEN <<>> ELSE Get(hist)
        cond == [mid \in 0..Len(h) |->
                    LET t == compute_token_length(q, h, mid)
                    IN  IF t = None THEN None ELSE Some(Get(t) <= L)]
        ub == upper_bound(0, Len(h), cond)
        history_length == ub.value
    IN  [old_history |-> PySlice(h, Some(history_length), None),
         history     |-> PySlice(h, None, Some(history_length)),
         probes      |-> ub.probes,
         raised      |-> ub.raised]

\* limit_history_length with the slices of lines 430-431 taken from the end
limit_history_length_from_end(q, hist, L) ==
    LET h == IF hist = None THEN <<>> ELSE Get(hist)
        cond == [mid \in 0..Len(h) |->
                    LET t == compute_token_length(q, h, mid)
                    IN  IF t = None THEN None ELSE Some(Get(t) <= L)]
        ub == upper_bound(0, Len(h), cond)
        history_length == ub.value
    IN  [old_history |-> PySlice(h, None, Some(-history_length)),
         history     |-> PySlice(h, Some(-history_length), None),
         probes      |-> ub.probes,
         raised      |-> ub.raised]

limit_history_length(q, hist, L) ==
    LET h == IF hist = None THEN <<>> ELSE Get(hist)
        cond == [mid \in 0..Len(h) |->
                    LET t == compute_token_length(q, h, mid)
                    IN  IF t = None THEN None ELSE Some(Get(t) <= L)]
        ub == upper_bound(0, Len(h), cond)
        history_length == ub.value
    IN  [old_history |-> PySlice(h, None, Some(Len(h) - history_length)),
         history     |-> PySlice(h, Some(Len(h) - history_length), None),
         probes      |-> ub.probes,
         raised      |-> ub.raised]

(***************************************************************************)
(* States of the parts of the model that a specification does not run.     *)
(***************************************************************************)
NoTopo == [dist |-> FALSE, nnodes |-> 1, nproc |-> 1]

\* no rank is running _msdataset_ddp_load
RanksIdle ==
    /\ lpc = <<>>
    /\ entered = <<>>
    /\ loads = <<>>

LoadIdle ==
    /\ topo = NoTopo
    /\ RanksIdle

\* no arguments object is under construction in the single process
ObjectIdle ==
    /\ args = <<>>
    /\ cls = "none"
    /\ apc = "none"
    /\ err = "none"
    /\ warnings = {}
    /\ MODEL_MAPPING = <<>>

ArgsIdle ==
    /\ ObjectIdle
    /\ bf16_supported = TRUE

NoBcast == [entered |-> {}, value |-> <<>>]

\* no distributed resolution is running
DistIdle ==
    /\ proc = <<>>
    /\ bcast = NoBcast

\* no label sequence is being rendered
LabelsIdle ==
    /\ labels = <<>>
    /\ labels_str = <<>>
    /\ gpc = "idle"

\* no inference call is being compared
InferIdle ==
    /\ iquery = 1
    /\ start = <<>>
    /\ generated = <<>>
    /\ ires = <<>>
    /\ spc = "idle"
    /\ shistory = <<>>
    /\ generate_ids = <<>>
    /\ yielded = <<>>

\* no search over an opaque template is running
SearchIdle ==
    /\ nturns = 0
    /\ outcomes = <<>>
    /\ sret = <<>>
    /\ qpc = "idle"

(***************************************************************************)
(* The conversation session.                                               *)
(***************************************************************************)
NoRet == [old_history |-> <<>>, history |-> <<>>, probes |-> <<>>,
          raised |-> FALSE]

HistInit ==
    /\ history \in {None, Some(<<>>)}
    /\ query = 1
    /\ max_length = 0
    /\ ret = NoRet
    /\ ret2 = NoRet
    /\ hpc = "idle"
    /\ LoadIdle
    /\ ArgsIdle
    /\ DistIdle
    /\ LabelsIdle
    /\ InferIdle
    /\ SearchIdle

\* inference(): history defaults to [], the turn (query, response) is appended
inference(q, response) ==
    /\ hpc = "idle"
    /\ LET h == IF history = None THEN <<>> ELSE Get(history)
       IN  /\ Len(h) < MaxHist
           /\ history' = Some(Append(h, <<q, response>>))
    /\ UNCHANGED <<query, max_length, ret, ret2, hpc>>
    /\ UNCHANGED <<lvars, avars, dvars, gvars, ivars, svars>>

\* a call limit_history_length(template, q, history, L)
CallLimit(q, L) ==
    /\ hpc = "idle"
    /\ query' = q
    /\ max_length' = L
    /\ ret' = limit_history_length(q, history, L)
    /\ hpc' = "returned"
    /\ UNCHANGED <<history, ret2>>
    /\ UNCHANGED <<lvars, avars, dvars, gvars, ivars, svars>>

\* a second call, on the suffix the first one returned
CallLimitAgain ==
    /\ hpc = "returned"
    /\ ret2' = limit_history_length(query, Some(ret.history), max_length)
    /\ hpc' = "again"
    /\ UNCHANGED <<history, query, max_length, ret>>
    /\ UNCHANGED <<lvars, avars, dvars, gvars, ivars, svars>>

HistNext ==
    \/ \E q \in Strs, response \in Strs : inference(q, response)
    \/ \E q \in Strs, L \in 0..MaxLimit : CallLimit(q, L)
    \/ CallLimitAgain

SpecHist == HistInit /\ [][HistNext]_vars

HistIdle ==
    /\ history = None
    /\ query = 1
    /\ max_length = 0
    /\ ret = NoRet
    /\ ret2 = NoRet
    /\ hpc = "idle"

(***************************************************************************)
(* The distributed launch.  A launch of nnodes nodes with nproc ranks each *)
(* numbers its ranks 0..nnodes*nproc-1, rank r being local rank r % nproc  *)
(* of node r \div nproc.  A run that is not distributed is the single      *)
(* process 0, whose rank and local rank are -1.                            *)
(***************************************************************************)
WorldSize(t) == IF t.dist THEN t.nnodes * t.nproc ELSE 1

Ranks(t) == 0..(WorldSize(t) - 1)

\* get_dist_setting(): (rank, local_rank) of process r
get_rank(t, r) == IF t.dist THEN r ELSE -1

get_local_rank(t, r) == IF t.dist THEN r % t.nproc ELSE -1

NodeOf(t, r) == IF t.dist THEN r \div t.nproc ELSE 0

is_dist(t, r) == get_rank(t, r) >= 0 /\ get_local_rank(t, r) >= 0

is_master(t, r) == get_rank(t, r) \in {-1, 0}

is_local_master(t, r) == get_local_rank(t, r) \in {-1, 0}

Topologies ==
    {NoTopo} \cup
    {[dist |-> TRUE, nnodes |-> n, nproc |-> p] :
        n \in 1..MaxNodes, p \in 1..MaxLocal}

(***************************************************************************)
(* dist.barrier(): a rank inside its i-th barrier call leaves it once      *)
(* every rank of the group has entered its i-th barrier call.              *)
(***************************************************************************)
BarrierOpen(r) == \A s \in Ranks(topo) : entered[s] >= entered[r]

(***************************************************************************)
(* _msdataset_ddp_load, run by every rank.  lpc[r] is the line rank r is   *)
(* about to run ("l80", "l82", "l83", "l86"), the call it is inside        *)
(* ("in81", "in84", "in87": dist.barrier(); "in82": _old_msdataset_load)   *)
(* or "ret" once it has returned the dataset.                              *)
(***************************************************************************)
LoadInit ==
    /\ topo \in Topologies
    /\ lpc = [r \in Ranks(topo) |-> "l80"]
    /\ entered = [r \in Ranks(topo) |-> 0]
    /\ loads = [r \in Ranks(topo) |-> 0]
    /\ HistIdle
    /\ ArgsIdle
    /\ DistIdle
    /\ LabelsIdle
    /\ InferIdle
    /\ SearchIdle

\* lines 80-81, with the fence left out
CheckNotLocalMaster_NoFence(r) ==
    /\ lpc[r] = "l80"
    /\ lpc' = [lpc EXCEPT ![r] = "l82"]
    /\ UNCHANGED <<topo, entered, loads>>
    /\ UNCHANGED <<hvars, avars, dvars, gvars, ivars, svars>>

\* lines 80-81, with every rank of a distributed run waiting before its load
CheckNotLocalMaster_AllWait(r) ==
    /\ lpc[r] = "l80"
    /\ IF is_dist(topo, r)
       THEN /\ lpc' = [lpc EXCEPT ![r] = "in81"]
            /\ entered' = [entered EXCEPT ![r] = @ + 1]
       ELSE /\ lpc' = [lpc EXCEPT ![r] = "l82"]
            /\ UNCHANGED entered
    /\ UNCHANGED <<topo, loads>>
    /\ UNCHANGED <<hvars, avars, dvars, gvars, ivars, svars>>

\* lines 80-81: if is_dist() and not is_local_master(): dist.barrier()
CheckNotLocalMaster(r) ==
    /\ lpc[r] = "l80"
    /\ IF is_dist(topo, r) /\ ~is_local_master(topo, r)
       THEN /\ lpc' = [lpc EXCEPT ![r] = "in81"]
            /\ entered' = [entered EXCEPT ![r] = @ + 1]
       ELSE /\ lpc' = [lpc EXCEPT ![r] = "l82"]
            /\ UNCHANGED entered
    /\ UNCHANGED <<topo, loads>>
    /\ UNCHANGED <<hvars, avars, dvars, gvars, ivars, svars>>

\* a dist.barrier() call returns
BarrierReturns(r) ==
    /\ lpc[r] \in {"in81", "in84", "in87"}
    /\ BarrierOpen(r)
    /\ lpc' = [lpc EXCEPT ![r] = CASE lpc[r] = "in81" -> "l82"
                                    [] lpc[r] = "in84" -> "l86"
                                    [] lpc[r] = "in87" -> "ret"]
    /\ UNCHANGED <<topo, entered, loads>>
    /\ UNCHANGED <<hvars, avars, dvars, gvars, ivars, svars>>

\* line 82: dataset = _old_msdataset_load(*args, **kwargs) is called
CallLoad(r) ==
    /\ lpc[r] = "l82"
    /\ lpc' = [lpc EXCEPT ![r] = "in82"]
    /\ loads' = [loads EXCEPT ![r] = @ + 1]
    /\ UNCHANGED <<topo, entered>>
    /\ UNCHANGED <<hvars, avars, dvars, gvars, ivars, svars>>

\* line 82: the underlying load returns
LoadReturns(r) ==
    /\ lpc[r] = "in82"
    /\ lpc' = [lpc EXCEPT ![r] = "l83"]
    /\ UNCHANGED <<topo, entered, loads>>
    /\ UNCHANGED <<hvars, avars, dvars, gvars, ivars, svars>>

\* lines 83-84: if is_dist() and is_local_master(): dist.barrier()
CheckLocalMaster(r) ==
    /\ lpc[r] = "l83"
    /\ IF is_dist(topo, r) /\ is_local_master(topo, r)
       THEN /\ lpc' = [lpc EXCEPT ![r] = "in84"]
            /\ entered' = [entered EXCEPT ![r] = @ + 1]
       ELSE /\ lpc' = [lpc EXCEPT ![r] = "l86"]
            /\ UNCHANGED entered
    /\ UNCHANGED <<topo, loads>>
    /\ UNCHANGED <<hvars, avars, dvars, gvars, ivars, svars>>

\* lines 86-88: if is_dist(): dist.barrier(); return dataset
CheckDist(r) ==
    /\ lpc[r] = "l86"
    /\ IF is_dist(topo, r)
       THEN /\ lpc' = [lpc EXCEPT ![r] = "in87"]
            /\ entered' = [entered EXCEPT ![r] = @ + 1]
       ELSE /\ lpc' = [lpc EXCEPT ![r] = "ret"]
            /\ UNCHANGED entered
    /\ UNCHANGED <<topo, loads>>
    /\ UNCHANGED <<hvars, avars, dvars, gvars, ivars, svars>>

LoadNext ==
    \/ \E r \in Ranks(topo) : CheckNotLocalMaster(r)
    \/ \E r \in Ranks(topo) : BarrierReturns(r)
    \/ \E r \in Ranks(topo) : CallLoad(r)
    \/ \E r \in Ranks(topo) : LoadReturns(r)
    \/ \E r \in Ranks(topo) : CheckLocalMaster(r)
    \/ \E r \in Ranks(topo) : CheckDist(r)

SpecLoad == LoadInit /\ [][LoadNext]_vars

\* the next step of the process that is rank r
RankStep(r) ==
    /\ r \in Ranks(topo)
    /\ \/ CheckNotLocalMaster(r)
       \/ BarrierReturns(r)
       \/ CallLoad(r)
       \/ LoadReturns(r)
       \/ CheckLocalMaster(r)
       \/ CheckDist(r)

\* every rank is a running process: it takes its next step when it can, a
\* barrier that is open lets it through, and its underlying load returns
SpecLoadFair ==
    /\ LoadInit
    /\ [][LoadNext]_vars
    /\ \A r \in 0..(MaxNodes * MaxLocal - 1) : WF_vars(RankStep(r))

(***************************************************************************)
(* Configuration resolution: values.                                       *)
(*                                                                         *)
(* A path-like string is [kind, name]: kind "rel" is the string name,      *)
(* "tilde" is ~/name and "abs" is /name.                                   *)
(***************************************************************************)
Path(kind, name) == [kind |-> kind, name |-> name]

\* os.path.expanduser
expanduser(p) ==
    IF p.kind = "tilde" THEN Path("abs", "home/u/" \o p.name) ELSE p

\* an abspath that joins the working directory to every path
abspath_joined(p) == Path("abs", "cwd/" \o p.name)

\* os.path.abspath
abspath(p) ==
    IF p.kind = "abs" THEN p ELSE Path("abs", "cwd/" \o p.name)

\* os.path.join(p, s)
path_join(p, s) == Path(p.kind, p.name \o "/" \o s)

\* the files and directories of the machine
ExistingPaths ==
    {Path("abs", n) : n \in {"home/u/cache", "cwd/ds_config.json",
                             "cwd/train.jsonl", "cwd/val.jsonl",
                             "cwd/ckpt-full", "cwd/ckpt-full/sft_args.json",
                             "cwd/ckpt-old", "cwd/ckpt-old/sft_args.json",
                             "cwd/ckpt-nosnap", "models/qwen"}}

\* os.path.exists
path_exists(p) == p.kind # "tilde" /\ abspath(p) \in ExistingPaths

\* str.lower() on the names of model ids
LowerName(n) ==
    CASE n = "qwen/Qwen-7B-Chat"      -> "qwen/qwen-7b-chat"
      [] n = "QWEN/QWEN-7B-CHAT"      -> "qwen/qwen-7b-chat"
      [] n = "qwen/Qwen-7B-Chat-Int4" -> "qwen/qwen-7b-chat-int4"
      [] n = "qwen/Qwen-7B-Chat-Int8" -> "qwen/qwen-7b-chat-int8"
      [] n = "ZhipuAI/chatglm3-6b"    -> "zhipuai/chatglm3-6b"
      [] OTHER                        -> n

lower(p) == Path(p.kind, LowerName(p.name))

\* 'int4' in model_type or 'int8' in model_type
HasIntSuffix(model_type) ==
    model_type \in {"qwen-7b-chat-int4", "qwen-7b-chat-int8"}

\* dtype_mapping of model.py and its inverse dtype_mapping_reversed
dtype_mapping ==
    [float16 |-> "fp16", bfloat16 |-> "bf16", float32 |-> "fp32"]

dtype_mapping_reversed ==
    [fp16 |-> "float16", bf16 |-> "bfloat16", fp32 |-> "float32"]

\* the packages require_version finds installed
Installed == {"bitsandbytes", "deepspeed", "auto_gptq"}

(***************************************************************************)
(* MODEL_MAPPING as the imports of model.py leave it.                      *)
(***************************************************************************)
InitialModelMapping ==
    [m \in {"qwen-7b-chat", "qwen-7b-chat-int4", "qwen-7b-chat-int8",
            "chatglm3-6b"} |->
        CASE m = "qwen-7b-chat" ->
                [model_id_or_path |-> Path("rel", "qwen/Qwen-7B-Chat"),
                 revision |-> "v1.1.7", requires |-> {},
                 torch_dtype |-> None, template |-> "chatml",
                 lora_target_modules |-> <<"c_attn">>,
                 support_flash_attn |-> Some(TRUE)]
          [] m = "qwen-7b-chat-int4" ->
                [model_id_or_path |-> Path("rel", "qwen/Qwen-7B-Chat-Int4"),
                 revision |-> "v1.1.3", requires |-> {"auto_gptq"},
                 torch_dtype |-> Some("float16"), template |-> "chatml",
                 lora_target_modules |-> <<"c_attn">>,
                 support_flash_attn |-> Some(TRUE)]
          [] m = "qwen-7b-chat-int8" ->
                [model_id_or_path |-> Path("rel", "qwen/Qwen-7B-Chat-Int8"),
                 revision |-> "v1.1.3", requires |-> {"optimum"},
                 torch_dtype |-> None, template |-> "chatml",
                 lora_target_modules |-> <<"c_attn">>,
                 support_flash_attn |-> Some(TRUE)]
          [] m = "chatglm3-6b" ->
                [model_id_or_path |-> Path("rel", "ZhipuAI/chatglm3-6b"),
                 revision |-> "v1.0.2", requires |-> {},
                 torch_dtype |-> None, template |-> "chatglm3",
                 lora_target_modules |-> <<"query_key_value">>,
                 support_flash_attn |-> None]]

(***************************************************************************)
(* The sft_args.json snapshots of the checkpoint directories: ckpt-full    *)
(* holds every imported key, ckpt-old is the snapshot of an older run that *)
(* lacks some, ckpt-nosnap holds no snapshot.                              *)
(***************************************************************************)
SnapshotFull ==
    [model_type |-> Some("chatglm3-6b"),
     model_id_or_path |-> Some(Path("rel", "ZhipuAI/chatglm3-6b")),
     model_revision |-> Some("v1.0.2"),
     model_cache_dir |-> Some(Path("abs", "home/u/cache")),
     sft_type |-> Some("lora"),
     template_type |-> Some("chatglm3"),
     dtype |-> Some("bf16"),
     system |-> Some("you are a translator"),
     quantization_bit |-> Some(4),
     bnb_4bit_comp_dtype |-> Some("bf16"),
     bnb_4bit_quant_type |-> Some("fp4"),
     bnb_4bit_use_double_quant |-> Some(FALSE),
     dataset |-> Some(<< <<"alpaca-zh">> >>),
     dataset_seed |-> Some(7),
     dataset_test_ratio |-> Some("0.05"),
     check_dataset_strategy |-> Some("warning"),
     custom_train_dataset_path |-> Some(<<>>),
     custom_val_dataset_path |-> Some(<<>>)]

SnapshotOld ==
    [model_type |-> Some("qwen-7b-chat"),
     model_id_or_path |-> Some(Path("rel", "qwen/Qwen-7B-Chat")),
     sft_type |-> Some("full"),
     template_type |-> Some("chatml"),
     dtype |-> Some("fp16"),
     quantization_bit |-> Some(0),
     bnb_4bit_comp_dtype |-> Some("fp16"),
     dataset |-> Some(<< <<"alpaca-en">> >>),
     dataset_seed |-> Some(7),
     dataset_test_ratio |-> Some("0.05")]

\* the content of the json file at path p
SnapshotAt(p) ==
    IF p = Path("abs", "cwd/ckpt-full/sft_args.json") THEN SnapshotFull
    ELSE SnapshotOld

(***************************************************************************)
(* The dataclass fields and their defaults.  args is a function from field *)
(* names to Python values, each None or Some(v).  A dataset name is the    *)
(* sequence of the names its string joins with commas.  The attributes     *)
(* that __post_init__ creates (torch_dtype, ...) are None until then.      *)
(***************************************************************************)
CommonDefaults ==
    [model_type |-> None,
     model_id_or_path |-> None,
     model_revision |-> None,
     model_cache_dir |-> None,
     sft_type |-> Some("lora"),
     template_type |-> Some("AUTO"),
     seed |-> Some(42),
     dtype |-> Some("AUTO"),
     dataset |-> None,
     dataset_seed |-> Some(42),
     dataset_test_ratio |-> Some("0.01"),
     system |-> Some("you are a helpful assistant!"),
     max_length |-> Some(2048),
     check_dataset_strategy |-> Some("none"),
     custom_train_dataset_path |-> None,
     custom_val_dataset_path |-> None,
     quantization_bit |-> Some(0),
     bnb_4bit_comp_dtype |-> Some("AUTO"),
     bnb_4bit_quant_type |-> Some("nf4"),
     bnb_4bit_use_double_quant |-> Some(TRUE),
     use_flash_attn |-> None,
     torch_dtype |-> None,
     bnb_4bit_compute_dtype |-> None,
     load_in_4bit |-> None,
     load_in_8bit |-> None]

SftOnlyDefaults ==
    [output_dir |-> Some(Path("rel", "output")),
     add_output_dir_suffix |-> Some(TRUE),
     ddp_backend |-> Some("nccl"),
     resume_from_checkpoint |-> None,
     val_dataset_sample |-> None,
     lora_target_modules |-> None,
     deepspeed_config_path |-> None,
     batch_size |-> Some(1),
     eval_batch_size |-> None,
     learning_rate |-> None,
     predict_with_generate |-> Some(FALSE),
     eval_steps |-> Some(50),
     save_steps |-> None,
     only_save_model |-> None,
     save_total_limit |-> Some(2),
     push_to_hub |-> Some(FALSE),
     hub_model_id |-> None,
     hub_token |-> None,
     test_oom_error |-> Some(FALSE),
     logging_dir |-> None,
     report_to |-> None,
     fp16 |-> None,
     bf16 |-> None,
     train_sampler_random |-> None,
     deepspeed |-> None]

InferOnlyDefaults ==
    [ckpt_dir |-> None,
     load_args_from_ckpt_dir |-> Some(TRUE),
     eval_human |-> Some(FALSE),
     val_dataset_sample |-> Some(10),
     overwrite_generation_config |-> Some(FALSE),
     show_dataset_sample |-> Some(10)]

RomeOnlyDefaults == [rome_request_file |-> None]

\* the record with the fields of r and of s
Merge(r, s) ==
    [k \in DOMAIN r \cup DOMAIN s |-> IF k \in DOMAIN s THEN s[k] ELSE r[k]]

SftDefaults == Merge(CommonDefaults, SftOnlyDefaults)

InferDefaults == Merge(CommonDefaults, InferOnlyDefaults)

RomeDefaults == Merge(InferDefaults, RomeOnlyDefaults)

Defaults(c) ==
    CASE c = "Sft" -> SftDefaults
      [] c = "Infer" -> InferDefaults
      [] c = "Rome" -> RomeDefaults

\* isinstance(args, SftArguments), isinstance(args, InferArguments)
IsSft(c) == c = "Sft"

IsInfer(c) == c \in {"Infer", "Rome"}


(***************************************************************************)
(* Configuration resolution: the functions of argument.py.  They work on   *)
(* a resolution state st: the object st.a of class st.cls, the registry    *)
(* st.reg (MODEL_MAPPING), the exception st.err raised so far ("none" or   *)
(* its type and line), the warnings st.warn logged, the hardware answer    *)
(* st.bf16 of torch.cuda.is_bf16_supported() and the value st.ret that the *)
(* last function returned.  A function does nothing once st.err is set.    *)
(***************************************************************************)
Ok(st) == st.err = "none"

Raise(st, e) == [st EXCEPT !.err = e]

Warn(st, w) == [st EXCEPT !.warn = @ \cup {w}]

Elems(seq) == {seq[i] : i \in 1..Len(seq)}

\* args.dataset[0].split(',')
split_comma(name) == [i \in 1..Len(name) |-> <<name[i]>>]

\* handle_compatibility, lines 423-439
handle_compatibility(st) ==
    IF ~Ok(st) THEN st ELSE
    LET a  == st.a
        a1 == IF /\ a.dataset # None
                 /\ Len(Get(a.dataset)) = 1
                 /\ Len(Get(a.dataset)[1]) > 1
              THEN [a EXCEPT !.dataset = Some(split_comma(Get(a.dataset)[1]))]
              ELSE a
        a2 == IF a1.template_type = Some("chatglm2-generation")
              THEN [a1 EXCEPT !.template_type = Some("chatglm-generation")]
              ELSE a1
        a3 == IF a2.template_type = Some("qwen")
              THEN [a2 EXCEPT !.template_type = Some("chatml")]
              ELSE a2
        a4 == IF /\ IsSft(st.cls)
                 /\ a3.lora_target_modules # None
                 /\ "AUTO" \in Elems(Get(a3.lora_target_modules))
                 /\ Len(Get(a3.lora_target_modules)) = 1
              THEN [a3 EXCEPT !.lora_target_modules = Some(<<"DEFAULT">>)]
              ELSE a3
        a5 == IF /\ IsInfer(st.cls)
                 /\ a4.show_dataset_sample # Some(10)
                 /\ a4.val_dataset_sample = Some(10)
              THEN [a4 EXCEPT !.val_dataset_sample = a4.show_dataset_sample]
              ELSE a4
    IN  [st EXCEPT !.a = a5]

\* the fields whose value is a list of paths
ListPathKeys == {"custom_train_dataset_path", "custom_val_dataset_path"}

\* _check_path on one string, lines 493-497: the path, or None when it raises
check_path_str(k, value, check_exist_path_set) ==
    LET v == abspath(expanduser(value))
    IN  IF k \in check_exist_path_set /\ ~path_exists(v) THEN None
        ELSE Some(v)

\* _check_path, lines 490-503: the new value, or None when it raises
check_path(k, value, check_exist_path_set) ==
    IF k \in ListPathKeys
    THEN LET res == [i \in 1..Len(value) |->
                        check_path_str(k, value[i], check_exist_path_set)]
         IN  IF \E i \in 1..Len(value) : res[i] = None THEN None
             ELSE Some([i \in 1..Len(value) |-> Get(res[i])])
    ELSE check_path_str(k, value, check_exist_path_set)

\* the loop of handle_path, lines 518-523
RECURSIVE handle_path_loop(_, _, _)
handle_path_loop(st, keys, check_exist_path_set) ==
    IF keys = <<>> \/ ~Ok(st) THEN st
    ELSE LET k == Head(keys)
             value == IF k \in DOMAIN st.a THEN st.a[k] ELSE None
         IN  IF value = None
             THEN handle_path_loop(st, Tail(keys), check_exist_path_set)
             ELSE LET v == check_path(k, Get(value), check_exist_path_set)
                  IN  IF v = None
                      THEN Raise(st, "FileNotFoundError:497")
                      ELSE handle_path_loop([st EXCEPT !.a[k] = v],
                                            Tail(keys), check_exist_path_set)

\* handle_path, lines 506-523
handle_path(st) ==
    IF ~Ok(st) THEN st ELSE
    LET m == st.a.model_id_or_path
        check_exist_path ==
            <<"model_cache_dir", "ckpt_dir", "resume_from_checkpoint",
              "deepspeed_config_path", "custom_train_dataset_path",
              "custom_val_dataset_path">>
            \o (IF m # None /\ Get(m).kind \in {"tilde", "abs"}
                THEN <<"model_id_or_path">> ELSE <<>>)
        other_path == <<"output_dir", "logging_dir">>
    IN  handle_path_loop(st, check_exist_path \o other_path,
                         Elems(check_exist_path))

\* require_version over the requirements of a model, lines 469-471
requires_met(requires) == requires \subseteq Installed

\* set_model_type without its first line, the assert
set_model_type_unchecked(st) ==
    IF ~Ok(st) THEN st ELSE
    LET a == st.a
        known == {k \in DOMAIN st.reg :
                     a.model_id_or_path # None /\
                     lower(st.reg[k].model_id_or_path) =
                         lower(Get(a.model_id_or_path))}
    IN  IF a.model_id_or_path # None /\ known = {}
        THEN Raise(st, "ValueError:455")
        ELSE
        LET a1 == IF a.model_id_or_path # None
                  THEN [a EXCEPT !.model_type = Some(CHOOSE k \in known : TRUE)]
                  ELSE a
        IN  IF a1.model_type = None THEN Raise(st, "ValueError:459")
            ELSE IF Get(a1.model_type) \notin DOMAIN st.reg
            THEN Raise([st EXCEPT !.a = a1], "ValueError:462")
            ELSE
            LET mt  == Get(a1.model_type)
                a2  == IF a1.model_revision = None
                       THEN [a1 EXCEPT !.model_revision =
                                           Some(st.reg[mt].revision)]
                       ELSE a1
                reg == IF a1.model_revision = None THEN st.reg
                       ELSE [st.reg EXCEPT ![mt].revision =
                                               Get(a1.model_revision)]
                a3  == [a2 EXCEPT !.model_id_or_path =
                                      Some(reg[mt].model_id_or_path)]
                st3 == [st EXCEPT !.a = a3, !.reg = reg]
            IN  IF requires_met(reg[mt].requires) THEN st3
                ELSE Raise(st3, "ImportError:471")

\* set_model_type with the registry left as it was (line 467 left out)
set_model_type_unpinned(st) ==
    IF ~Ok(st) THEN st ELSE
    IF ~(st.a.model_type = None \/ st.a.model_id_or_path = None)
    THEN Raise(st, "AssertionError:443")
    ELSE [set_model_type_unchecked(st) EXCEPT !.reg = st.reg]

\* set_model_type, lines 442-471
set_model_type(st) ==
    IF ~Ok(st) THEN st ELSE
    IF ~(st.a.model_type = None \/ st.a.model_id_or_path = None)
    THEN Raise(st, "AssertionError:443")
    ELSE set_model_type_unchecked(st)

\* register_custom_dataset, lines 526-545
register_custom_dataset(st) ==
    IF ~Ok(st) THEN st ELSE
    LET a  == st.a
        a1 == IF a.custom_train_dataset_path = None
              THEN [a EXCEPT !.custom_train_dataset_path = Some(<<>>)] ELSE a
        a2 == IF a1.custom_val_dataset_path = None
              THEN [a1 EXCEPT !.custom_val_dataset_path = Some(<<>>)] ELSE a1
        a3 == IF /\ Len(Get(a2.custom_train_dataset_path)) = 0
                 /\ Len(Get(a2.custom_val_dataset_path)) = 0
              THEN a2
              ELSE IF a2.dataset = None
              THEN [a2 EXCEPT !.dataset = Some(<< <<"_custom_dataset">> >>)]
              ELSE IF <<"_custom_dataset">> \notin Elems(Get(a2.dataset))
              THEN [a2 EXCEPT !.dataset =
                       Some(Append(Get(a2.dataset), <<"_custom_dataset">>))]
              ELSE a2
    IN  [st EXCEPT !.a = a3]

\* check_flash_attn, lines 576-581
check_flash_attn(st) ==
    IF ~Ok(st) THEN st ELSE
    IF st.a.model_type = None \/ Get(st.a.model_type) \notin DOMAIN st.reg
    THEN Raise(st, "KeyError:577")
    ELSE LET info == st.reg[Get(st.a.model_type)]
             support_flash_attn == info.support_flash_attn = Some(TRUE)
         IN  IF st.a.use_flash_attn = Some(TRUE) /\ ~support_flash_attn
             THEN Warn(st, "use_flash_attn") ELSE st

\* select_dtype without the registry lookup of lines 375-379
select_dtype_no_registry(st) ==
    IF ~Ok(st) THEN st ELSE
    LET a  == st.a
        a1 == IF a.dtype = Some("AUTO") /\ ~st.bf16
              THEN [a EXCEPT !.dtype = Some("fp16")] ELSE a
        a3 == IF a1.dtype = Some("AUTO")
              THEN [a1 EXCEPT !.dtype = Some("bf16")] ELSE a1
        st3 == [st EXCEPT !.a = a3]
    IN  IF a3.dtype = None \/ Get(a3.dtype) \notin DOMAIN dtype_mapping_reversed
        THEN Raise(st3, "KeyError:383")
        ELSE LET torch_dtype == dtype_mapping_reversed[Get(a3.dtype)]
             IN  IF torch_dtype = "float16"
                 THEN IF IsSft(st.cls) /\ a3.sft_type = Some("full")
                      THEN [Warn(st3, "Setting torch_dtype: torch.float32")
                               EXCEPT !.ret = <<"float32", TRUE, FALSE>>]
                      ELSE [st3 EXCEPT !.ret = <<"float16", TRUE, FALSE>>]
                 ELSE IF torch_dtype = "bfloat16"
                 THEN [(IF st.bf16 THEN st3 ELSE Warn(st3, "support_bf16"))
                          EXCEPT !.ret = <<"bfloat16", FALSE, TRUE>>]
                 ELSE [st3 EXCEPT !.ret = <<torch_dtype, FALSE, FALSE>>]

\* select_dtype, lines 371-398; st.ret is (torch_dtype, fp16, bf16)
select_dtype(st) ==
    IF ~Ok(st) THEN st ELSE
    LET a  == st.a
        a1 == IF a.dtype = Some("AUTO") /\ ~st.bf16
              THEN [a EXCEPT !.dtype = Some("fp16")] ELSE a
        a2 == IF /\ a1.dtype = Some("AUTO")
                 /\ HasIntSuffix(Get(a1.model_type))
                 /\ st.reg[Get(a1.model_type)].torch_dtype # None
              THEN [a1 EXCEPT !.dtype = Some(dtype_mapping[
                       Get(st.reg[Get(a1.model_type)].torch_dtype)])]
              ELSE a1
        a3 == IF a2.dtype = Some("AUTO")
              THEN [a2 EXCEPT !.dtype = Some("bf16")] ELSE a2
        st3 == [st EXCEPT !.a = a3]
    IN  IF a3.dtype = None \/ Get(a3.dtype) \notin DOMAIN dtype_mapping_reversed
        THEN Raise(st3, "KeyError:383")
        ELSE LET torch_dtype == dtype_mapping_reversed[Get(a3.dtype)]
             IN  IF torch_dtype = "float16"
                 THEN IF IsSft(st.cls) /\ a3.sft_type = Some("full")
                      THEN [Warn(st3, "Setting torch_dtype: torch.float32")
                               EXCEPT !.ret = <<"float32", TRUE, FALSE>>]
                      ELSE [st3 EXCEPT !.ret = <<"float16", TRUE, FALSE>>]
                 ELSE IF torch_dtype = "bfloat16"
                 THEN [(IF st.bf16 THEN st3 ELSE Warn(st3, "support_bf16"))
                          EXCEPT !.ret = <<"bfloat16", FALSE, TRUE>>]
                 ELSE [st3 EXCEPT !.ret = <<torch_dtype, FALSE, FALSE>>]

\* select_bnb, lines 401-420; st.ret is
\* (bnb_4bit_compute_dtype, load_in_4bit, load_in_8bit)
select_bnb_both(st) ==
    IF ~Ok(st) THEN st ELSE
    LET a1  == IF st.a.bnb_4bit_comp_dtype = Some("AUTO")
               THEN [st.a EXCEPT !.bnb_4bit_comp_dtype = st.a.dtype]
               ELSE st.a
        st1 == [st EXCEPT !.a = a1]
    IN  IF \/ a1.bnb_4bit_comp_dtype = None
           \/ Get(a1.bnb_4bit_comp_dtype) \notin DOMAIN dtype_mapping_reversed
        THEN Raise(st1, "KeyError:407")
        ELSE [st1 EXCEPT !.ret =
                 <<dtype_mapping_reversed[Get(a1.bnb_4bit_comp_dtype)],
                   a1.quantization_bit \in {Some(4), Some(8)},
                   a1.quantization_bit = Some(8)>>]

select_bnb(st) ==
    IF ~Ok(st) THEN st ELSE
    LET a   == st.a
        a1  == IF a.bnb_4bit_comp_dtype = Some("AUTO")
               THEN [a EXCEPT !.bnb_4bit_comp_dtype = a.dtype] ELSE a
        st1 == [st EXCEPT !.a = a1]
        quantization_bit == a1.quantization_bit
    IN  IF \/ a1.bnb_4bit_comp_dtype = None
           \/ Get(a1.bnb_4bit_comp_dtype) \notin DOMAIN dtype_mapping_reversed
        THEN Raise(st1, "KeyError:407")
        ELSE LET bnb_4bit_compute_dtype ==
                     dtype_mapping_reversed[Get(a1.bnb_4bit_comp_dtype)]
             IN  IF quantization_bit = Some(4)
                 THEN IF "bitsandbytes" \notin Installed
                      THEN Raise(st1, "ImportError:412")
                      ELSE [st1 EXCEPT !.ret =
                               <<bnb_4bit_compute_dtype, TRUE, FALSE>>]
                 ELSE IF quantization_bit = Some(8)
                 THEN IF "bitsandbytes" \notin Installed
                      THEN Raise(st1, "ImportError:415")
                      ELSE [st1 EXCEPT !.ret =
                               <<bnb_4bit_compute_dtype, FALSE, TRUE>>]
                 ELSE [st1 EXCEPT !.ret =
                          <<bnb_4bit_compute_dtype, FALSE, FALSE>>]

\* prepare_push_ms_hub, lines 474-487; neither the environment variable
\* MODELSCOPE_API_TOKEN nor a stored token is present
prepare_push_ms_hub(st) ==
    IF ~Ok(st) THEN st ELSE
    LET a  == st.a
        a1 == IF a.hub_model_id = None
              THEN [a EXCEPT !.hub_model_id =
                       Some(Get(a.model_type) \o "-" \o Get(a.sft_type))]
              ELSE a
        st1 == [st EXCEPT !.a = a1]
    IN  IF a1.push_to_hub = Some(TRUE) /\ a1.hub_token = None
        THEN Raise(st1, "AssertionError:485")
        ELSE st1


\* the keys load_from_ckpt_dir imports, lines 555-566
\* the allow-list with the test of line 561 left out
imported_keys_with_dataset(a) ==
    <<"model_type", "model_id_or_path", "model_revision", "model_cache_dir",
      "sft_type", "template_type", "dtype", "system", "quantization_bit",
      "bnb_4bit_comp_dtype", "bnb_4bit_quant_type",
      "bnb_4bit_use_double_quant",
      "dataset", "dataset_seed", "dataset_test_ratio",
      "check_dataset_strategy", "custom_train_dataset_path",
      "custom_val_dataset_path">>

imported_keys(a) ==
    <<"model_type", "model_id_or_path", "model_revision", "model_cache_dir",
      "sft_type", "template_type", "dtype", "system", "quantization_bit",
      "bnb_4bit_comp_dtype", "bnb_4bit_quant_type",
      "bnb_4bit_use_double_quant">>
    \o (IF a.eval_human # Some(TRUE)
        THEN <<"dataset", "dataset_seed", "dataset_test_ratio",
               "check_dataset_strategy", "custom_train_dataset_path",
               "custom_val_dataset_path">>
        ELSE <<>>)

\* the keys that keep a value that is not None, lines 568-572
ProtectedKeys ==
    {"model_cache_dir", "dataset", "custom_train_dataset_path",
     "custom_val_dataset_path"}

\* sft_args.get(key)
dict_get(d, key) == IF key \in DOMAIN d THEN d[key] ELSE None

\* load_from_ckpt_dir with the test of lines 568-572 left out
load_from_ckpt_dir_overwrite(st) ==
    IF ~Ok(st) THEN st ELSE
    LET sft_args_path == path_join(Get(st.a.ckpt_dir), "sft_args.json")
    IN  IF ~path_exists(sft_args_path) THEN st
        ELSE LET sft_args == SnapshotAt(sft_args_path)
                 keys == Elems(imported_keys(st.a))
             IN  [st EXCEPT !.a = [k \in DOMAIN st.a |->
                     IF k \in keys THEN dict_get(sft_args, k) ELSE st.a[k]]]

\* load_from_ckpt_dir that skips the keys the snapshot does not define
load_from_ckpt_dir_skip_missing(st) ==
    IF ~Ok(st) THEN st ELSE
    LET sft_args_path == path_join(Get(st.a.ckpt_dir), "sft_args.json")
    IN  IF ~path_exists(sft_args_path) THEN st
        ELSE LET sft_args == SnapshotAt(sft_args_path)
                 keys == Elems(imported_keys(st.a))
             IN  [st EXCEPT !.a = [k \in DOMAIN st.a |->
                     IF /\ k \in keys
                        /\ k \in DOMAIN sft_args
                        /\ ~(k \in ProtectedKeys /\ st.a[k] # None)
                     THEN sft_args[k]
                     ELSE st.a[k]]]

\* load_from_ckpt_dir, lines 548-573
load_from_ckpt_dir(st) ==
    IF ~Ok(st) THEN st ELSE
    LET sft_args_path == path_join(Get(st.a.ckpt_dir), "sft_args.json")
    IN  IF ~path_exists(sft_args_path) THEN st
        ELSE LET sft_args == SnapshotAt(sft_args_path)
                 keys == Elems(imported_keys(st.a))
             IN  [st EXCEPT !.a = [k \in DOMAIN st.a |->
                     IF k \in keys /\ ~(k \in ProtectedKeys /\ st.a[k] # None)
                     THEN dict_get(sft_args, k)
                     ELSE st.a[k]]]

\* get_default_template_type(model_type) of model.py
get_default_template_type(st) == st.reg[Get(st.a.model_type)].template

\* lines 198-203 and 326-331: the template_type and dataset defaults
default_template_and_dataset(st) ==
    IF ~Ok(st) THEN st ELSE
    LET a  == st.a
        a1 == IF a.template_type = Some("AUTO")
              THEN [a EXCEPT !.template_type =
                       Some(get_default_template_type(st))]
              ELSE a
        a2 == IF a1.dataset = None
              THEN [a1 EXCEPT !.dataset = Some(<< <<"blossom-math-zh">> >>)]
              ELSE a1
    IN  [st EXCEPT !.a = a2]

\* self.torch_dtype, self.fp16, self.bf16 = select_dtype(self), line 166
assign_dtype(st) ==
    LET s1 == select_dtype(st)
    IN  IF ~Ok(s1) THEN s1
        ELSE [s1 EXCEPT !.a.torch_dtype = Some(s1.ret[1]),
                        !.a.fp16 = Some(s1.ret[2]),
                        !.a.bf16 = Some(s1.ret[3])]

\* self.torch_dtype, _, _ = select_dtype(self), lines 325 and 359
assign_torch_dtype(st) ==
    LET s1 == select_dtype(st)
    IN  IF ~Ok(s1) THEN s1
        ELSE [s1 EXCEPT !.a.torch_dtype = Some(s1.ret[1])]

\* self.bnb_4bit_compute_dtype, self.load_in_4bit, self.load_in_8bit =
\* select_bnb(self), lines 213 and 333
assign_bnb(st) ==
    LET s1 == select_bnb(st)
    IN  IF ~Ok(s1) THEN s1
        ELSE [s1 EXCEPT !.a.bnb_4bit_compute_dtype = Some(s1.ret[1]),
                        !.a.load_in_4bit = Some(s1.ret[2]),
                        !.a.load_in_8bit = Some(s1.ret[3])]

\* if self.max_length == -1: self.max_length = None
max_length_none(st) ==
    IF ~Ok(st) THEN st ELSE
    IF st.a.max_length = Some(-1) THEN [st EXCEPT !.a.max_length = None]
    ELSE st

(***************************************************************************)
(* SftArguments.__post_init__.  Process r of launch t runs lines 155-176,  *)
(* then the broadcast of line 178 when the launch is distributed, then     *)
(* lines 180-237.  ver is the version add_version_to_work_dir finds free.  *)
(***************************************************************************)
\* add_version_to_work_dir of swift.utils
add_version_to_work_dir(work_dir, ver) == path_join(work_dir, ver)

\* lines 160-164
sft_output_dir(st, t, r, ver) ==
    IF ~Ok(st) THEN st ELSE
    IF st.a.add_output_dir_suffix = Some(TRUE)
    THEN LET joined == path_join(Get(st.a.output_dir), Get(st.a.model_type))
         IN  [st EXCEPT !.a.output_dir =
                 Some(IF is_master(t, r)
                      THEN add_version_to_work_dir(joined, ver)
                      ELSE joined)]
    ELSE st

\* lines 167-176 with the process group initialised before the gloo check
sft_dist_setup_late_check(st, t, r) ==
    IF ~Ok(st) THEN st ELSE
    IF is_dist(t, r)
    THEN LET s1 == [st EXCEPT !.a.seed = Some(Get(@) + get_rank(t, r)),
                              !.pg = TRUE]
         IN  IF /\ s1.a.ddp_backend = Some("gloo")
                /\ s1.a.quantization_bit # Some(0)
             THEN Raise(s1, "ValueError:172")
             ELSE s1
    ELSE st

\* lines 167-176
sft_dist_setup(st, t, r) ==
    IF ~Ok(st) THEN st ELSE
    IF is_dist(t, r)
    THEN LET s1 == [st EXCEPT !.a.seed = Some(Get(@) + get_rank(t, r))]
         IN  IF /\ s1.a.ddp_backend = Some("gloo")
                /\ s1.a.quantization_bit # Some(0)
             THEN Raise(s1, "ValueError:172")
             ELSE [s1 EXCEPT !.pg = TRUE]
    ELSE st

\* lines 155-176
sft_before_broadcast(st, t, r, ver) ==
    sft_dist_setup(
        assign_dtype(
            sft_output_dir(
                check_flash_attn(
                    register_custom_dataset(
                        set_model_type(
                            handle_path(
                                handle_compatibility(st))))),
                t, r, ver)),
        t, r)

\* lines 180-196 without the assertion of line 189
sft_type_defaults_quantized(st) ==
    IF ~Ok(st) THEN st ELSE
    IF st.a.sft_type \in {Some("lora"), Some("longlora"), Some("qalora")}
    THEN [st EXCEPT
             !.a.learning_rate = IF @ = None THEN Some("1e-4") ELSE @,
             !.a.only_save_model =
                 IF @ = None THEN Some(st.a.deepspeed_config_path # None)
                 ELSE @]
    ELSE IF st.a.sft_type = Some("full")
    THEN IF st.a.dtype = Some("fp16")
         THEN Raise(st, "AssertionError:190")
         ELSE [st EXCEPT
                  !.a.learning_rate = IF @ = None THEN Some("2e-5") ELSE @,
                  !.a.only_save_model = IF @ = None THEN Some(TRUE) ELSE @]
    ELSE Raise(st, "ValueError:196")

\* lines 180-196
sft_type_defaults(st) ==
    IF ~Ok(st) THEN st ELSE
    LET a == st.a
    IN  IF a.sft_type \in {Some("lora"), Some("longlora"), Some("qalora")}
        THEN LET a1 == IF a.learning_rate = None
                       THEN [a EXCEPT !.learning_rate = Some("1e-4")] ELSE a
                 a2 == IF a1.only_save_model = None
                       THEN [a1 EXCEPT !.only_save_model =
                                Some(a1.deepspeed_config_path # None)]
                       ELSE a1
             IN  [st EXCEPT !.a = a2]
        ELSE IF a.sft_type = Some("full")
        THEN IF a.quantization_bit # Some(0)
             THEN Raise(st, "AssertionError:189")
             ELSE IF a.dtype = Some("fp16")
             THEN Raise(st, "AssertionError:190")
             ELSE LET a1 == IF a.learning_rate = None
                            THEN [a EXCEPT !.learning_rate = Some("2e-5")]
                            ELSE a
                      a2 == IF a1.only_save_model = None
                            THEN [a1 EXCEPT !.only_save_model = Some(TRUE)]
                            ELSE a1
                  IN  [st EXCEPT !.a = a2]
        ELSE Raise(st, "ValueError:196")

\* lines 205-212
sft_lora_defaults(st) ==
    IF ~Ok(st) THEN st ELSE
    LET a  == st.a
        a1 == IF a.save_steps = None
              THEN [a EXCEPT !.save_steps = a.eval_steps] ELSE a
        a2 == IF a1.lora_target_modules = None
              THEN [a1 EXCEPT !.lora_target_modules = Some(<<"DEFAULT">>)]
              ELSE a1
    IN  IF "DEFAULT" \in Elems(Get(a2.lora_target_modules))
        THEN IF Len(Get(a2.lora_target_modules)) # 1
             THEN Raise([st EXCEPT !.a = a2], "AssertionError:210")
             ELSE [st EXCEPT !.a = [a2 EXCEPT !.lora_target_modules =
                     Some(st.reg[Get(a2.model_type)].lora_target_modules)]]
        ELSE [st EXCEPT !.a = a2]

\* lines 217-237; line 237 compares report_to with ['all'] and assigns nothing
sft_tail(st) ==
    IF ~Ok(st) THEN st ELSE
    LET a  == st.a
        a1 == [a EXCEPT !.train_sampler_random =
                            Some(a.test_oom_error # Some(TRUE))]
        a2 == IF a1.eval_batch_size = None
              THEN [a1 EXCEPT !.eval_batch_size =
                       IF a1.predict_with_generate = Some(TRUE)
                       THEN Some(1) ELSE a1.batch_size]
              ELSE a1
        a3 == IF a2.save_total_limit = Some(-1)
              THEN [a2 EXCEPT !.save_total_limit = None] ELSE a2
        a4 == IF a3.max_length = Some(-1)
              THEN [a3 EXCEPT !.max_length = None] ELSE a3
        a5 == [a4 EXCEPT !.deepspeed = None]
    IN  IF a5.deepspeed_config_path # None /\ "deepspeed" \notin Installed
        THEN Raise([st EXCEPT !.a = a5], "ImportError:230")
        ELSE
        LET a6 == IF a5.deepspeed_config_path # None
                  THEN [a5 EXCEPT !.deepspeed =
                           Some(Get(a5.deepspeed_config_path).name)]
                  ELSE a5
            a7 == IF a6.logging_dir = None
                  THEN [a6 EXCEPT !.logging_dir =
                           Some(path_join(Get(a6.output_dir), "runs"))]
                  ELSE a6
        IN  [st EXCEPT !.a = a7]

\* lines 180-237
sft_after_broadcast(st) ==
    sft_tail(
        prepare_push_ms_hub(
            assign_bnb(
                sft_lora_defaults(
                    default_template_and_dataset(
                        sft_type_defaults(st))))))

(***************************************************************************)
(* InferArguments.__post_init__, in three steps, and RomeArguments.        *)
(***************************************************************************)
\* lines 310-317
infer_normalize(st) ==
    LET s1 == handle_path(handle_compatibility(st))
    IN  IF ~Ok(s1) THEN s1
        ELSE IF /\ s1.a.ckpt_dir = None
                /\ s1.a.load_args_from_ckpt_dir = Some(TRUE)
        THEN [s1 EXCEPT !.a.load_args_from_ckpt_dir = Some(FALSE)]
        ELSE s1

\* lines 318-321
infer_identify(st) ==
    IF st.a.load_args_from_ckpt_dir = Some(TRUE)
    THEN load_from_ckpt_dir(st)
    ELSE set_model_type(st)

\* lines 338-340
infer_overwrite_generation_config(st) ==
    IF ~Ok(st) THEN st ELSE
    IF st.a.ckpt_dir = None /\ st.a.overwrite_generation_config = Some(TRUE)
    THEN [Warn(st, "Setting overwrite_generation_config: False")
             EXCEPT !.a.overwrite_generation_config = Some(FALSE)]
    ELSE st

\* lines 322-340
infer_finish(st) ==
    infer_overwrite_generation_config(
        max_length_none(
            assign_bnb(
                default_template_and_dataset(
                    assign_torch_dtype(
                        check_flash_attn(
                            register_custom_dataset(st)))))))

\* lines 360-362
rome_template(st) ==
    IF ~Ok(st) THEN st ELSE
    IF st.a.template_type = Some("AUTO")
    THEN [st EXCEPT !.a.template_type = Some(get_default_template_type(st))]
    ELSE st

\* RomeArguments.__post_init__, lines 353-365
rome_post_init(st) ==
    max_length_none(
        rome_template(
            assign_torch_dtype(
                check_flash_attn(
                    set_model_type(
                        handle_path(
                            handle_compatibility(st)))))))


(***************************************************************************)
(* One process constructing arguments objects.                             *)
(***************************************************************************)
ModelTypeValues ==
    {Some(m) : m \in {"qwen-7b-chat", "qwen-7b-chat-int4",
                      "qwen-7b-chat-int8", "my-model"}}

ModelIdValues ==
    {Some(Path("rel", "QWEN/QWEN-7B-CHAT")), Some(Path("rel", "my/model")),
     Some(Path("abs", "models/qwen"))}

\* the keyword arguments a caller may give, as <<field, value>>
CommonChoices ==
    ({"model_type"} \X ModelTypeValues)
    \cup ({"model_id_or_path"} \X ModelIdValues)
    \cup {<<"model_revision", Some("v9")>>,
          <<"model_cache_dir", Some(Path("tilde", "cache"))>>,
          <<"model_cache_dir", Some(Path("rel", "nowhere"))>>,
          <<"template_type", Some("qwen")>>,
          <<"template_type", Some("chatglm2-generation")>>,
          <<"dtype", Some("fp16")>>,
          <<"dtype", Some("bf16")>>,
          <<"dtype", Some("fp32")>>,
          <<"dataset", Some(<< <<"alpaca-en", "alpaca-zh">> >>)>>,
          <<"dataset", Some(<< <<"alpaca-en">> >>)>>,
          <<"custom_train_dataset_path", Some(<<Path("rel", "train.jsonl")>>)>>,
          <<"quantization_bit", Some(4)>>,
          <<"quantization_bit", Some(8)>>,
          <<"quantization_bit", Some(3)>>,
          <<"bnb_4bit_comp_dtype", Some("fp32")>>,
          <<"max_length", Some(-1)>>,
          <<"use_flash_attn", Some(TRUE)>>}

SftChoices ==
    CommonChoices
    \cup {<<"sft_type", Some("full")>>,
          <<"sft_type", Some("adalora")>>,
          <<"output_dir", Some(Path("tilde", "out"))>>,
          <<"add_output_dir_suffix", Some(FALSE)>>,
          <<"lora_target_modules", Some(<<"AUTO">>)>>,
          <<"lora_target_modules", Some(<<"DEFAULT", "w_proj">>)>>,
          <<"lora_target_modules", Some(<<"w_proj">>)>>,
          <<"deepspeed_config_path", Some(Path("rel", "ds_config.json"))>>,
          <<"eval_batch_size", Some(4)>>,
          <<"learning_rate", Some("3e-4")>>,
          <<"save_steps", Some(10)>>,
          <<"only_save_model", Some(FALSE)>>,
          <<"predict_with_generate", Some(TRUE)>>,
          <<"save_total_limit", Some(-1)>>,
          <<"push_to_hub", Some(TRUE)>>,
          <<"hub_token", Some("token")>>,
          <<"logging_dir", Some(Path("rel", "logs"))>>,
          <<"report_to", Some(<<"tensorboard">>)>>}

InferChoices ==
    CommonChoices
    \cup {<<"ckpt_dir", Some(Path("rel", c))>> :
             c \in {"ckpt-full", "ckpt-old", "ckpt-nosnap", "ckpt-gone"}}
    \cup {<<"load_args_from_ckpt_dir", Some(FALSE)>>,
          <<"eval_human", Some(TRUE)>>,
          <<"system", Some("you are a poet")>>,
          <<"dataset_seed", Some(1)>>,
          <<"custom_val_dataset_path", Some(<<Path("rel", "val.jsonl")>>)>>,
          <<"show_dataset_sample", Some(5)>>,
          <<"val_dataset_sample", Some(20)>>,
          <<"overwrite_generation_config", Some(TRUE)>>}

RomeChoices ==
    {c \in CommonChoices :
        c[1] \in {"model_type", "model_id_or_path", "model_revision",
                  "template_type", "dtype", "max_length"}}

Choices(c) ==
    CASE c = "Sft" -> SftChoices
      [] c = "Infer" -> InferChoices
      [] c = "Rome" -> RomeChoices

\* the keyword arguments given so far: the fields that differ from the default
Supplied ==
    LET d == Defaults(cls)
    IN  {k \in DOMAIN args : args[k] # d[k]}

\* the resolution state of the object under construction
CurSt ==
    [a |-> args, reg |-> MODEL_MAPPING, err |-> err, warn |-> warnings,
     cls |-> cls, bf16 |-> bf16_supported, ret |-> <<>>, pg |-> FALSE]

\* the process goes on from resolution state st, to next when nothing raised
Commit(st, next) ==
    /\ args' = st.a
    /\ MODEL_MAPPING' = st.reg
    /\ err' = st.err
    /\ warnings' = st.warn
    /\ apc' = IF Ok(st) THEN next ELSE "failed"
    /\ UNCHANGED <<cls, bf16_supported>>

ArgsInit ==
    /\ args = <<>>
    /\ cls = "none"
    /\ apc = "none"
    /\ err = "none"
    /\ warnings = {}
    /\ MODEL_MAPPING = InitialModelMapping
    /\ bf16_supported \in BOOLEAN
    /\ HistIdle
    /\ LoadIdle
    /\ DistIdle
    /\ LabelsIdle
    /\ InferIdle
    /\ SearchIdle

\* the dataclass __init__ starts: every field takes its default
NewArgs(c) ==
    /\ apc = "none"
    /\ args' = Defaults(c)
    /\ cls' = c
    /\ apc' = "new"
    /\ UNCHANGED <<err, warnings, MODEL_MAPPING, bf16_supported>>
    /\ UNCHANGED <<hvars, lvars, dvars, gvars, ivars, svars>>

\* the dataclass __init__ assigns a keyword argument
Supply ==
    /\ apc = "new"
    /\ LET given == Supplied
       IN  /\ Cardinality(given) < MaxSupplied
           /\ \E c \in Choices(cls) :
                  /\ c[1] \notin given
                  /\ args' = [args EXCEPT ![c[1]] = c[2]]
    /\ UNCHANGED <<cls, apc, err, warnings, MODEL_MAPPING, bf16_supported>>
    /\ UNCHANGED <<hvars, lvars, dvars, gvars, ivars, svars>>

\* SftArguments.__post_init__ in a process that is not distributed
SftPostInit(ver) ==
    /\ apc = "new"
    /\ cls = "Sft"
    /\ Commit(sft_after_broadcast(
                  sft_before_broadcast(CurSt, NoTopo, 0, ver)), "resolved")
    /\ UNCHANGED <<hvars, lvars, dvars, gvars, ivars, svars>>

\* InferArguments.__post_init__, lines 310-317
InferNormalize ==
    /\ apc = "new"
    /\ cls = "Infer"
    /\ Commit(infer_normalize(CurSt), "normalized")
    /\ UNCHANGED <<hvars, lvars, dvars, gvars, ivars, svars>>

\* InferArguments.__post_init__, lines 318-321
InferIdentify ==
    /\ apc = "normalized"
    /\ Commit(infer_identify(CurSt), "identified")
    /\ UNCHANGED <<hvars, lvars, dvars, gvars, ivars, svars>>

\* InferArguments.__post_init__, lines 322-340
InferFinish ==
    /\ apc = "identified"
    /\ Commit(infer_finish(CurSt), "resolved")
    /\ UNCHANGED <<hvars, lvars, dvars, gvars, ivars, svars>>

\* RomeArguments.__post_init__
RomePostInit ==
    /\ apc = "new"
    /\ cls = "Rome"
    /\ Commit(rome_post_init(CurSt), "resolved")
    /\ UNCHANGED <<hvars, lvars, dvars, gvars, ivars, svars>>

Versions == {"v0-20231101-120000", "v1-20231101-120500"}

ArgsNext ==
    \/ \E c \in {"Sft", "Infer", "Rome"} : NewArgs(c)
    \/ Supply
    \/ \E ver \in Versions : SftPostInit(ver)
    \/ InferNormalize
    \/ InferIdentify
    \/ InferFinish
    \/ RomePostInit

SpecArgs == ArgsInit /\ [][ArgsNext]_vars


(***************************************************************************)
(* SftArguments resolution in a distributed launch: every rank is a        *)
(* process of its own, with its own registry, and constructs the object    *)
(* from the same keyword arguments.  proc[r].pc is "l155" before           *)
(* __post_init__ runs, "in178" inside broadcast_string, "l180" after it,   *)
(* "resolved" or "failed".                                                 *)
(*                                                                         *)
(* broadcast_string(s): a rank inside the call leaves it once every rank   *)
(* of the group has entered it, with the string rank 0 passed.             *)
(***************************************************************************)
\* the keyword arguments of the launches modelled, as sets of <<field, value>>
DistInputs ==
    LET m == <<"model_type", Some("qwen-7b-chat")>>
    IN  {{},
         {m},
         {m, <<"add_output_dir_suffix", Some(FALSE)>>},
         {m, <<"output_dir", Some(Path("tilde", "out"))>>},
         {m, <<"logging_dir", Some(Path("rel", "logs"))>>},
         {m, <<"sft_type", Some("full")>>},
         {m, <<"ddp_backend", Some("gloo")>>},
         {m, <<"ddp_backend", Some("gloo")>>, <<"quantization_bit", Some(4)>>}}

\* the object after the dataclass __init__ assigned the keyword arguments
Construct(c, kwargs) ==
    [k \in DOMAIN Defaults(c) |->
        IF \E kv \in kwargs : kv[1] = k
        THEN (CHOOSE kv \in kwargs : kv[1] = k)[2]
        ELSE Defaults(c)[k]]

\* the resolution state of rank r
RankSt(r) ==
    [a |-> proc[r].a, reg |-> proc[r].reg, err |-> proc[r].err,
     warn |-> proc[r].warn, cls |-> "Sft", bf16 |-> bf16_supported,
     ret |-> <<>>, pg |-> proc[r].pg]

\* rank r goes on from resolution state st, to next when nothing raised
RankCommit(r, st, next) ==
    [pc |-> IF Ok(st) THEN next ELSE "failed", a |-> st.a, reg |-> st.reg,
     err |-> st.err, warn |-> st.warn, pg |-> st.pg]

DistInit ==
    /\ topo \in {t \in Topologies : t.dist}
    /\ bf16_supported \in BOOLEAN
    /\ \E kwargs \in DistInputs :
           proc = [r \in Ranks(topo) |->
                      [pc |-> "l155", a |-> Construct("Sft", kwargs),
                       reg |-> InitialModelMapping, err |-> "none",
                       warn |-> {}, pg |-> FALSE]]
    /\ bcast = NoBcast
    /\ HistIdle
    /\ RanksIdle
    /\ ObjectIdle
    /\ LabelsIdle
    /\ InferIdle
    /\ SearchIdle

\* rank r runs lines 155-178 up to its entry into broadcast_string
DistResolveBefore(r, ver) ==
    /\ proc[r].pc = "l155"
    /\ LET st == sft_before_broadcast(RankSt(r), topo, r, ver)
       IN  /\ proc' = [proc EXCEPT ![r] = RankCommit(r, st, "in178")]
           /\ bcast' = IF Ok(st)
                       THEN [entered |-> bcast.entered \cup {r},
                             value |-> IF get_rank(topo, r) = 0
                                       THEN st.a.output_dir
                                       ELSE bcast.value]
                       ELSE bcast
    /\ UNCHANGED <<hvars, lvars, avars, gvars, ivars, svars>>

\* line 178 with the returned string dropped
DistBroadcastReturns_Dropped(r) ==
    /\ proc[r].pc = "in178"
    /\ bcast.entered = Ranks(topo)
    /\ proc' = [proc EXCEPT ![r].pc = "l180"]
    /\ UNCHANGED bcast
    /\ UNCHANGED <<hvars, lvars, avars, gvars, ivars, svars>>

\* broadcast_string returns in rank r, and line 178 assigns self.output_dir
DistBroadcastReturns(r) ==
    /\ proc[r].pc = "in178"
    /\ bcast.entered = Ranks(topo)
    /\ proc' = [proc EXCEPT ![r].pc = "l180", ![r].a.output_dir = bcast.value]
    /\ UNCHANGED bcast
    /\ UNCHANGED <<hvars, lvars, avars, gvars, ivars, svars>>

\* rank r runs lines 180-237
DistResolveAfter(r) ==
    /\ proc[r].pc = "l180"
    /\ proc' = [proc EXCEPT ![r] =
                   RankCommit(r, sft_after_broadcast(RankSt(r)), "resolved")]
    /\ UNCHANGED bcast
    /\ UNCHANGED <<hvars, lvars, avars, gvars, ivars, svars>>

DistNext ==
    \/ \E r \in Ranks(topo) : \E ver \in Versions : DistResolveBefore(r, ver)
    \/ \E r \in Ranks(topo) : DistBroadcastReturns(r)
    \/ \E r \in Ranks(topo) : DistResolveAfter(r)

SpecDist == DistInit /\ [][DistNext]_vars


(***************************************************************************)
(* _get_labels_str(labels, tokenizer).  A label is -100 (masked) or a      *)
(* token id.  A string is the sequence of its pieces: tokenizer.decode     *)
(* turns a token list into one piece per token, [tok |-> t], and the       *)
(* marker '[-100 * N]' is the piece [mask |-> N].  The locals s and e are  *)
(* None while unbound; reading an unbound local raises.                    *)
(***************************************************************************)
Masked == -100

LabelValues == {Masked} \cup Strs

RECURSIVE SeqsUpTo(_, _)
SeqsUpTo(S, n) ==
    IF n = 0 THEN {<<>>}
    ELSE LET shorter == SeqsUpTo(S, n - 1)
         IN  shorter \cup {Append(q, x) : q \in shorter, x \in S}

\* tokenizer.decode(tokens)
decode(tokens) == [i \in 1..Len(tokens) |-> [tok |-> tokens[i]]]

\* f'[-100 * {n}]'
marker(n) == << [mask |-> n] >>

\* the loop of lines 255-267, from index i (0-based) on; st holds the locals
RECURSIVE get_labels_str_loop(_, _, _)
get_labels_str_loop(l, i, st) ==
    IF i >= Len(l) \/ st.raised THEN st
    ELSE IF i = 0
    THEN get_labels_str_loop(l, 1,
             IF l[1] = Masked THEN [st EXCEPT !.s = Some(0)]
                              ELSE [st EXCEPT !.e = Some(0)])
    ELSE LET st1 ==
                 IF l[i + 1] = Masked /\ l[i] # Masked
                 THEN IF st.e = None THEN [st EXCEPT !.raised = TRUE]
                      ELSE [st EXCEPT
                               !.s = Some(i),
                               !.out = @ \o decode(PySlice(l, st.e, Some(i)))]
                 ELSE st
             st2 ==
                 IF st1.raised THEN st1
                 ELSE IF l[i + 1] # Masked /\ l[i] = Masked
                 THEN IF st1.s = None THEN [st1 EXCEPT !.raised = TRUE]
                      ELSE [st1 EXCEPT
                               !.e = Some(i),
                               !.out = @ \o marker(i - Get(st1.s))]
                 ELSE st1
         IN  get_labels_str_loop(l, i + 1, st2)

\* _get_labels_str with the run that ends the sequence left out
get_labels_str_no_tail(l) ==
    IF Len(l) = 0 THEN [out |-> <<>>, raised |-> FALSE]
    ELSE LET st == get_labels_str_loop(l, 0,
                       [s |-> None, e |-> None, out |-> <<>>,
                        raised |-> FALSE])
         IN  [out |-> st.out, raised |-> st.raised]

\* _get_labels_str, lines 250-272
get_labels_str(l) ==
    IF Len(l) = 0 THEN [out |-> <<>>, raised |-> FALSE]
    ELSE LET st == get_labels_str_loop(l, 0,
                       [s |-> None, e |-> None, out |-> <<>>,
                        raised |-> FALSE])
         IN  IF st.raised THEN [out |-> st.out, raised |-> TRUE]
             ELSE IF l[Len(l)] = Masked
             THEN IF st.s = None THEN [out |-> st.out, raised |-> TRUE]
                  ELSE [out |-> st.out \o marker(Len(l) - Get(st.s)),
                        raised |-> FALSE]
             ELSE IF st.e = None THEN [out |-> st.out, raised |-> TRUE]
                  ELSE [out |-> st.out \o decode(PySlice(l, st.e, None)),
                        raised |-> FALSE]

LabelsInit ==
    /\ labels \in SeqsUpTo(LabelValues, MaxLabels)
    /\ labels_str = <<>>
    /\ gpc = "idle"
    /\ HistIdle
    /\ LoadIdle
    /\ ArgsIdle
    /\ DistIdle
    /\ InferIdle
    /\ SearchIdle

\* a call _get_labels_str(labels, tokenizer)
CallGetLabelsStr ==
    /\ gpc = "idle"
    /\ LET r == get_labels_str(labels)
       IN  /\ labels_str' = r.out
           /\ gpc' = IF r.raised THEN "raised" ELSE "returned"
    /\ UNCHANGED labels
    /\ UNCHANGED <<hvars, lvars, avars, dvars, ivars, svars>>

LabelsNext == CallGetLabelsStr

SpecLabels == LabelsInit /\ [][LabelsNext]_vars

(***************************************************************************)
(* A sequence of set_model_type calls in one process, each on a freshly    *)
(* constructed object; the registry MODEL_MAPPING lives as long as the     *)
(* process.                                                                *)
(***************************************************************************)
RevisionValues == {None, Some("v8"), Some("v9")}

\* the keyword arguments of the objects handed to set_model_type
PinInputs ==
    {{<<"model_type", m>>, <<"model_revision", r>>} :
         m \in ModelTypeValues, r \in RevisionValues}
    \cup {{<<"model_id_or_path", p>>, <<"model_revision", r>>} :
             p \in ModelIdValues, r \in RevisionValues}

PinInit ==
    /\ args = <<>>
    /\ cls = "none"
    /\ apc = "none"
    /\ err = "none"
    /\ warnings = {}
    /\ MODEL_MAPPING = InitialModelMapping
    /\ bf16_supported = TRUE
    /\ HistIdle
    /\ LoadIdle
    /\ DistIdle
    /\ LabelsIdle
    /\ InferIdle
    /\ SearchIdle

\* the process constructs the next object
PinConstruct(kwargs) ==
    /\ apc \in {"none", "identified", "failed"}
    /\ args' = Construct("Infer", kwargs)
    /\ cls' = "Infer"
    /\ apc' = "new"
    /\ err' = "none"
    /\ UNCHANGED <<warnings, MODEL_MAPPING, bf16_supported>>
    /\ UNCHANGED <<hvars, lvars, dvars, gvars, ivars, svars>>

\* set_model_type(args)
PinSetModelType ==
    /\ apc = "new"
    /\ Commit(set_model_type(CurSt), "identified")
    /\ UNCHANGED <<hvars, lvars, dvars, gvars, ivars, svars>>

PinNext ==
    \/ \E kwargs \in PinInputs : PinConstruct(kwargs)
    \/ PinSetModelType

SpecPin == PinInit /\ [][PinNext]_vars

(***************************************************************************)
(* The normalizer by itself: handle_compatibility followed by handle_path, *)
(* on an object of any of the classes, and the two run once more on the    *)
(* object they normalized.                                                 *)
(***************************************************************************)
\* handle_compatibility(args); handle_path(args)
Normalize ==
    /\ apc = "new"
    /\ Commit(handle_path(handle_compatibility(CurSt)), "normalized")
    /\ UNCHANGED <<hvars, lvars, dvars, gvars, ivars, svars>>

\* the same two calls on the normalized object
NormalizeAgain ==
    /\ apc = "normalized"
    /\ Commit(handle_path(handle_compatibility(CurSt)), "renormalized")
    /\ UNCHANGED <<hvars, lvars, dvars, gvars, ivars, svars>>

NormNext ==
    \/ \E c \in {"Sft", "Infer", "Rome"} : NewArgs(c)
    \/ Supply
    \/ Normalize
    \/ NormalizeAgain

SpecNorm == ArgsInit /\ [][NormNext]_vars

(***************************************************************************)
(* inference() and inference_stream() on the same query, the same starting *)
(* history and the same generated tokens.  Here a turn is the pair of the  *)
(* query (a token id) and the response (the decoded pieces); the dummy     *)
(* that inference_stream appends is None.  model.generate returns the      *)
(* prompt followed by the generated tokens, model.generate_stream yields   *)
(* the generated tokens one by one.                                        *)
(***************************************************************************)
EosToken == 0

GenTokens == Strs \cup {EosToken}

\* tokenizer.decode(tokens, True): the special tokens are skipped
RECURSIVE decode_skip_special(_)
decode_skip_special(tokens) ==
    IF tokens = <<>> THEN <<>>
    ELSE (IF Head(tokens) = EosToken THEN <<>> ELSE decode(<<Head(tokens)>>))
             \o decode_skip_special(Tail(tokens))

\* the token ids of a decoded response
RECURSIVE tokens_of(_)
tokens_of(response) ==
    IF response = <<>> THEN <<>>
    ELSE <<Head(response).tok>> \o tokens_of(Tail(response))

\* template.encode({'query': q, 'history': h})['input_ids']
RECURSIVE encode_prompt(_, _)
encode_prompt(q, h) ==
    IF h = <<>> THEN <<q>>
    ELSE <<Head(h)[1]>> \o tokens_of(Head(h)[2]) \o <<EosToken>>
             \o encode_prompt(q, Tail(h))

StartHistories ==
    {None, Some(<<>>), Some(<< <<1, decode(<<2>>)>> >>)}

\* inference(), lines 370-413: what it returns when the model generates tokens
inference_result(q, hist, tokens) ==
    LET h == IF hist = None THEN <<>> ELSE Get(hist)
        input_ids == encode_prompt(q, h)
        out == input_ids \o tokens
        response ==
            decode_skip_special(PySlice(out, Some(Len(input_ids)), None))
    IN  [response |-> response, history |-> Append(h, <<q, response>>)]

InferInit ==
    /\ iquery \in Strs
    /\ start \in StartHistories
    /\ generated \in SeqsUpTo(GenTokens, MaxGen)
    /\ ires = None
    /\ spc = "idle"
    /\ shistory = <<>>
    /\ generate_ids = <<>>
    /\ yielded = None
    /\ HistIdle
    /\ LoadIdle
    /\ ArgsIdle
    /\ DistIdle
    /\ LabelsIdle
    /\ SearchIdle

\* a call inference(model, template, query, history, stream=, verbose=)
CallInference(stream, verbose) ==
    /\ ires = None
    /\ ires' = Some(inference_result(iquery, start, generated))
    /\ UNCHANGED <<iquery, start, generated, spc, shistory, generate_ids,
                   yielded>>
    /\ UNCHANGED <<hvars, lvars, avars, dvars, gvars, svars>>

\* inference_stream() runs up to its loop, lines 338-362
StreamStart ==
    /\ spc = "idle"
    /\ shistory' = Append(IF start = None THEN <<>> ELSE Get(start), None)
    /\ generate_ids' = <<>>
    /\ spc' = "streaming"
    /\ UNCHANGED <<iquery, start, generated, ires, yielded>>
    /\ UNCHANGED <<hvars, lvars, avars, dvars, gvars, svars>>

\* one turn of the loop, lines 363-367: the next token, and the yield
StreamToken ==
    /\ spc = "streaming"
    /\ Len(generate_ids) < Len(generated)
    /\ LET ids == Append(generate_ids, generated[Len(generate_ids) + 1])
           response == decode_skip_special(ids)
           h == [shistory EXCEPT ![Len(shistory)] = <<iquery, response>>]
       IN  /\ generate_ids' = ids
           /\ shistory' = h
           /\ yielded' = Some([response |-> response, history |-> h])
    /\ UNCHANGED <<iquery, start, generated, ires, spc>>
    /\ UNCHANGED <<hvars, lvars, avars, dvars, gvars, svars>>

\* gen is exhausted and the generator returns
StreamEnd ==
    /\ spc = "streaming"
    /\ Len(generate_ids) = Len(generated)
    /\ spc' = "done"
    /\ UNCHANGED <<iquery, start, generated, ires, shistory, generate_ids,
                   yielded>>
    /\ UNCHANGED <<hvars, lvars, avars, dvars, gvars, svars>>

InferNext ==
    \/ \E stream \in BOOLEAN, verbose \in BOOLEAN :
           CallInference(stream, verbose)
    \/ StreamStart
    \/ StreamToken
    \/ StreamEnd

SpecInfer == InferInit /\ [][InferNext]_vars

(***************************************************************************)
(* limit_history_length over a template whose encoding is not known: the   *)
(* outcome of compute_token_length(k) <= max_length is any boolean for     *)
(* each suffix length k >= 1, and the assertion of line 423 fails for      *)
(* k = 0.                                                                  *)
(***************************************************************************)
\* lambda mid: compute_token_length(mid) <= max_length, lines 422-429
feasible(n, out) ==
    [mid \in 0..n |-> IF mid = 0 THEN None ELSE Some(out[mid])]

SearchInit ==
    /\ nturns \in 0..MaxSearch
    /\ outcomes \in [1..nturns -> BOOLEAN]
    /\ sret = <<>>
    /\ qpc = "idle"
    /\ HistIdle
    /\ LoadIdle
    /\ ArgsIdle
    /\ DistIdle
    /\ LabelsIdle
    /\ InferIdle

\* lines 428-429: history_length = upper_bound(0, len(history), lambda ...)
CallSearch ==
    /\ qpc = "idle"
    /\ sret' = upper_bound(0, nturns, feasible(nturns, outcomes))
    /\ qpc' = "searched"
    /\ UNCHANGED <<nturns, outcomes>>
    /\ UNCHANGED <<hvars, lvars, avars, dvars, gvars, ivars>>

SearchNext == CallSearch

SpecSearch == SearchInit /\ [][SearchNext]_vars

(***************************************************************************)
(* Context-window manager: properties.                                     *)
(***************************************************************************)
\* the caller's history as a list (None is the empty list)
HistList == IF history = None THEN <<>> ELSE Get(history)

\* the last k turns of the caller's history
Suffix(k) == SubSeq(HistList, Len(HistList) - k + 1, Len(HistList))

\* encode_length(k): tokens of {the last k turns, query}
EncodeLength(k) == TemplateEncodeLen(query, Suffix(k))

\* C1 as stated: the returned suffix length k satisfies encode_length(k) <= L
\* and (k = len(H) or encode_length(k+1) > L), for every history and limit.
C1_Original ==
    hpc = "returned" =>
        LET k == Len(ret.history)
        IN  /\ EncodeLength(k) <= max_length
            /\ (k = Len(HistList) \/ EncodeLength(k + 1) > max_length)

\* C1 amended: the returned suffix length k is the greatest feasible one,
\* (k = len(H) or encode_length(k+1) > L), and encode_length(k) <= L whenever
\* k > 0; for k = 0 the query alone may exceed the limit.
C1_MaximalSuffix ==
    hpc = "returned" =>
        LET k == Len(ret.history)
        IN  /\ ~ret.raised
            /\ (k = 0 \/ EncodeLength(k) <= max_length)
            /\ (k = Len(HistList) \/ EncodeLength(k + 1) > max_length)

\* a call that dropped some turns and kept some, on a history of uneven turns
C1_Witness ==
    /\ hpc = "returned"
    /\ Len(HistList) = MaxHist
    /\ Len(ret.history) > 0
    /\ Len(ret.history) < Len(HistList)
    /\ HistList[1] # HistList[Len(HistList)]

\* C9: a call returns (old_history, history) whose concatenation is the input
\* history, element for element, history being its suffix and old_history the
\* complementary prefix; the caller's list is left as it was; for an empty or
\* None history both results are empty.
C9_SplitsInput ==
    [][(hpc = "idle" /\ hpc' = "returned") =>
          /\ history' = history
          /\ ret'.old_history \o ret'.history = HistList
          /\ ret'.history = Suffix(Len(ret'.history))
          /\ ret'.old_history = SubSeq(HistList, 1, Len(ret'.old_history))
          /\ (HistList = <<>> =>
                 ret'.old_history = <<>> /\ ret'.history = <<>>)]_vars

\* a call that split a history of distinct turns into two non-empty parts
C9_Witness ==
    /\ hpc = "returned"
    /\ ret.old_history # <<>>
    /\ ret.history # <<>>
    /\ ret.old_history # ret.history
    /\ Len(HistList) = MaxHist

\* C10: applying limit_history_length again to the suffix it returned, with
\* the same query and limit, returns that suffix and an empty old_history.
C10_Idempotent ==
    hpc = "again" =>
        /\ ret2.history = ret.history
        /\ ret2.old_history = <<>>

\* the second call ran on a suffix that the first call had really shortened
C10_Witness ==
    /\ hpc = "again"
    /\ ret.old_history # <<>>
    /\ Len(ret.history) >= 2
    /\ ret2.history = ret.history

\* the query alone, encoded without any history, exceeds the limit
QueryAloneTooLong == TemplateEncodeLen(query, <<>>) > max_length

\* C11 as stated: when even the zero-history encoding exceeds the limit the
\* call does not fail and returns history = [] and old_history = [], as for
\* an empty history.
C11_Original ==
    (hpc = "returned" /\ QueryAloneTooLong) =>
        /\ ~ret.raised
        /\ ret.history = <<>>
        /\ ret.old_history = <<>>

\* C11 amended: when even the zero-history encoding exceeds the limit the
\* call does not fail and returns the empty suffix, history = [], with
\* old_history holding every turn of the input history.
C11_EmptySuffix ==
    (hpc = "returned" /\ QueryAloneTooLong) =>
        /\ ~ret.raised
        /\ ret.history = <<>>
        /\ ret.old_history = HistList

\* a call on a history of several turns whose query alone exceeds the limit
C11_Witness ==
    /\ hpc = "returned"
    /\ QueryAloneTooLong
    /\ Len(HistList) = MaxHist
    /\ ret.history = <<>>
    /\ ret.old_history = HistList

\* the least e with 2^e >= m
RECURSIVE CeilLog2(_)
CeilLog2(m) == IF m <= 1 THEN 0 ELSE 1 + CeilLog2((m + 1) \div 2)

\* C20: a call evaluates its feasibility predicate at most ceil(log2(n+1))
\* times for a history of n turns, and not at all for an empty history.
C20_LogProbes ==
    hpc = "returned" =>
        /\ Len(ret.probes) <= CeilLog2(Len(HistList) + 1)
        /\ (HistList = <<>> => ret.probes = <<>>)

\* a call on the longest history that used every evaluation the bound allows
C20_Witness ==
    /\ hpc = "returned"
    /\ Len(HistList) = MaxHist
    /\ Len(ret.probes) = CeilLog2(MaxHist + 1)
    /\ Len(ret.probes) < MaxHist

\* C25: limit_history_length never evaluates compute_token_length at suffix
\* length 0, whatever the history length and whatever the outcomes of the
\* predicate: the assertion of line 423 never fails, every probe is a
\* suffix length between 1 and len(history), and the slice history[-k:] is
\* never taken with k = 0.
C25_NeverProbesZero ==
    qpc = "searched" =>
        /\ ~sret.raised
        /\ \A i \in 1..Len(sret.probes) : sret.probes[i] \in 1..nturns
        /\ sret.value \in 0..nturns

\* a search over several turns whose first suffix alone is infeasible ended
\* at 0 after probing suffix length 1
C25_Witness ==
    /\ qpc = "searched"
    /\ nturns >= 3
    /\ ~outcomes[1]
    /\ \E k \in 2..nturns : outcomes[k]
    /\ sret.value = 0
    /\ \E i \in 1..Len(sret.probes) : sret.probes[i] = 1


(***************************************************************************)
(* Barrier-fenced dataset load: properties.                                *)
(***************************************************************************)
\* rank r has begun its underlying load
BegunLoad(r) == loads[r] > 0

\* rank r has completed its underlying load
CompletedLoad(r) == lpc[r] \in {"l83", "in84", "l86", "in87", "ret"}

LocalLeaders == {r \in Ranks(topo) : is_local_master(topo, r)}

LeaderOfNode(r) ==
    CHOOSE l \in LocalLeaders : NodeOf(topo, l) = NodeOf(topo, r)

\* C7: no rank that is not a local leader begins the underlying load before
\* its node's local leader has completed its own load, and no rank returns
\* from the fenced load before every node's local leader has completed.
C7_FencedLoad ==
    /\ \A r \in Ranks(topo) \ LocalLeaders :
           BegunLoad(r) => CompletedLoad(LeaderOfNode(r))
    /\ \A r \in Ranks(topo) :
           lpc[r] = "ret" => \A l \in LocalLeaders : CompletedLoad(l)

\* a rank that is no local leader is inside its load while a local leader
\* waits in the last barrier, in a launch of several nodes with several ranks
C7_Witness ==
    /\ topo.dist /\ topo.nnodes >= 2 /\ topo.nproc >= 2
    /\ \E r \in Ranks(topo) \ LocalLeaders : lpc[r] = "in82"
    /\ \E l \in LocalLeaders : lpc[l] = "in87"

\* C8 as stated: a rank that is not a local leader never performs the
\* underlying load itself.
C8_Original ==
    \A r \in Ranks(topo) \ LocalLeaders : loads[r] = 0

\* C8 amended: every rank, local leader or not, invokes the underlying load
\* exactly once before it returns; the local leaders are the only ranks that
\* invoke it before the first barrier opens, a rank that is not a local
\* leader invoking it only after every node's local leader has completed.
C8_LeadersLoadFirst ==
    \A r \in Ranks(topo) :
        /\ loads[r] <= 1
        /\ (lpc[r] = "ret" => loads[r] = 1)
        /\ (r \notin LocalLeaders /\ BegunLoad(r) =>
                /\ entered[r] >= 1
                /\ \A l \in LocalLeaders : CompletedLoad(l))

\* every rank of a launch with ranks that are no local leaders has returned
C8_Witness ==
    /\ topo.dist /\ topo.nnodes >= 2 /\ topo.nproc >= 2
    /\ \A r \in Ranks(topo) : lpc[r] = "ret" /\ loads[r] = 1

\* a step in which rank r leaves a barrier
LeavesBarrier(r) ==
    /\ r \in Ranks(topo)
    /\ lpc[r] \in {"in81", "in84", "in87"}
    /\ lpc'[r] \notin {"in81", "in84", "in87"}

\* C24: in a distributed launch of any shape every rank enters exactly two
\* barriers in _msdataset_ddp_load, a rank leaves its i-th barrier only when
\* every rank has entered its own i-th barrier (no rank is ever more than
\* one barrier ahead of another), and, every underlying load returning,
\* every rank eventually returns from the fenced load.
C24_FencedLoadTerminates ==
    /\ [](\A r \in Ranks(topo) :
             /\ entered[r] <= 2
             /\ (topo.dist /\ lpc[r] = "ret") => entered[r] = 2
             /\ \A s \in Ranks(topo) : entered[r] - entered[s] <= 1)
    /\ [][\A r \in 0..(MaxNodes * MaxLocal - 1) :
             LeavesBarrier(r) =>
                 \A s \in Ranks(topo) : entered[s] >= entered[r]]_vars
    /\ <>(\A r \in Ranks(topo) : lpc[r] = "ret")

\* every rank of a launch of several nodes with several ranks each has
\* returned, after two barriers each
C24_Witness ==
    /\ topo.dist /\ topo.nnodes >= 2 /\ topo.nproc >= 2
    /\ \A r \in Ranks(topo) : lpc[r] = "ret" /\ entered[r] = 2 /\ loads[r] = 1


(***************************************************************************)
(* Configuration resolution: properties.                                   *)
(***************************************************************************)
\* a step that runs SftArguments.__post_init__
SftStep == apc = "new" /\ cls = "Sft" /\ apc' # "new"

\* a step that runs lines 318-321 of InferArguments.__post_init__
InferIdentifyStep == apc = "normalized" /\ apc' # "normalized"

\* a step that runs lines 322-340 of InferArguments.__post_init__
InferFinishStep == apc = "identified" /\ apc' # "identified"

\* the precision asked for is the low-precision float
LowPrecisionRequested ==
    \/ args.dtype = Some("fp16")
    \/ args.dtype = Some("AUTO") /\ ~bf16_supported

\* C2: an SftArguments resolution with sft_type 'full' and the low-precision
\* float requested does not raise for that combination: unless another rule
\* rejects the input, it completes with torch_dtype float32 and the warning
\* logged.
C2_FullFp16Completes ==
    [][(SftStep /\ args.sft_type = Some("full") /\ LowPrecisionRequested
        /\ err' \in {"none", "AssertionError:190"})
       => /\ apc' = "resolved"
          /\ args'.torch_dtype = Some("float32")
          /\ "Setting torch_dtype: torch.float32" \in warnings']_vars

\* C3: a resolution that hands select_bnb a quantization_bit outside
\* {0, 4, 8} fails instead of returning quantization flags.
C3_IllegalBitsFail ==
    [][((SftStep \/ InferFinishStep)
        /\ args.quantization_bit \notin {Some(0), Some(4), Some(8)})
       => apc' = "failed"]_vars

\* both model_type and model_id_or_path are supplied
BothSupplied == args.model_type # None /\ args.model_id_or_path # None

\* C4: when both model_type and model_id_or_path are supplied, the step of
\* the resolution that identifies the model fails with the assertion of
\* set_model_type, or with the error the normalizer raised before it, on
\* every path, InferArguments with ckpt_dir set included.
C4_AmbiguousFails ==
    [][(/\ \/ apc = "new" /\ cls \in {"Sft", "Rome"} /\ apc' # "new"
           \/ InferIdentifyStep
        /\ BothSupplied)
       => err' \in {"AssertionError:443", "FileNotFoundError:497"}]_vars

\* the snapshot that the step of load_from_ckpt_dir reads
SnapshotRead == SnapshotAt(path_join(Get(args.ckpt_dir), "sft_args.json"))

\* a step in which load_from_ckpt_dir finds the snapshot
LoadStep ==
    /\ InferIdentifyStep
    /\ args.load_args_from_ckpt_dir = Some(TRUE)
    /\ path_exists(path_join(Get(args.ckpt_dir), "sft_args.json"))

\* C5: when load_from_ckpt_dir finds the snapshot, a path-typed or
\* dataset-typed field holding a value that is not None keeps it, and every
\* other allow-listed field that the snapshot defines takes the snapshot's
\* value.
C5_ProtectedKept ==
    [][LoadStep =>
       \A k \in Elems(imported_keys(args)) :
           IF k \in ProtectedKeys /\ args[k] # None
           THEN args'[k] = args[k]
           ELSE k \in DOMAIN SnapshotRead => args'[k] = SnapshotRead[k]]_vars

\* a load has kept the user's dataset and taken the snapshot's system prompt
C5_Witness ==
    /\ apc = "identified"
    /\ args.load_args_from_ckpt_dir = Some(TRUE)
    /\ args.ckpt_dir = Some(Path("abs", "cwd/ckpt-full"))
    /\ args.dataset = Some(<< <<"alpaca-en">>, <<"alpaca-zh">> >>)
    /\ args.system = SnapshotFull.system
    /\ args.dtype = SnapshotFull.dtype

\* C26: when load_from_ckpt_dir finds a snapshot that does not define an
\* allow-listed key, the field becomes None, whatever it held, unless it is
\* one of the protected fields and holds a value that is not None, which it
\* keeps; a field outside the allow-list is never modified.
C26_MissingKeyCleared ==
    [][LoadStep =>
       /\ \A k \in Elems(imported_keys(args)) \ DOMAIN SnapshotRead :
              IF k \in ProtectedKeys /\ args[k] # None
              THEN args'[k] = args[k]
              ELSE args'[k] = None
       /\ \A k \in DOMAIN args \ Elems(imported_keys(args)) :
              args'[k] = args[k]]_vars

\* a load from the snapshot of an older release has cleared the fields that
\* the snapshot lacks and kept the user's model_cache_dir
C26_Witness ==
    /\ apc = "identified"
    /\ args.load_args_from_ckpt_dir = Some(TRUE)
    /\ args.ckpt_dir = Some(Path("abs", "cwd/ckpt-old"))
    /\ args.bnb_4bit_quant_type = None
    /\ args.check_dataset_strategy = None
    /\ args.system = None
    /\ args.model_cache_dir # None

\* the precisions torch offers to the quantization
TorchFloats == {"float16", "bfloat16", "float32"}

\* C13: once select_bnb has returned, at most one of load_in_4bit and
\* load_in_8bit is true, load_in_4bit is true exactly when quantization_bit
\* is 4 and load_in_8bit exactly when it is 8, and the compute dtype is one
\* of float16, bfloat16, float32, whatever quantization_bit is.
C13_BnbFlags ==
    (apc \in {"resolved", "failed"} /\ args.load_in_4bit # None) =>
        /\ ~(Get(args.load_in_4bit) /\ Get(args.load_in_8bit))
        /\ Get(args.load_in_4bit) = (args.quantization_bit = Some(4))
        /\ Get(args.load_in_8bit) = (args.quantization_bit = Some(8))
        /\ Get(args.bnb_4bit_compute_dtype) \in TorchFloats

\* a resolution with quantization_bit 8 set the 8-bit flag alone
C13_Witness ==
    /\ apc = "resolved"
    /\ args.quantization_bit = Some(8)
    /\ args.load_in_8bit = Some(TRUE)
    /\ args.load_in_4bit = Some(FALSE)
    /\ args.bnb_4bit_compute_dtype = Some("float32")

\* C14: an SftArguments resolution with sft_type 'full' and a
\* quantization_bit other than 0 fails, and none with sft_type 'full'
\* completes with load_in_4bit or load_in_8bit true.
C14_FullNotQuantized ==
    [][(SftStep /\ args.sft_type = Some("full")) =>
          /\ (args.quantization_bit # Some(0) => apc' = "failed")
          /\ (apc' = "resolved" =>
                 /\ args'.load_in_4bit = Some(FALSE)
                 /\ args'.load_in_8bit = Some(FALSE))]_vars

\* a full-parameter resolution with 4-bit quantization failed at line 189
C14_Witness ==
    /\ apc = "failed"
    /\ cls = "Sft"
    /\ err = "AssertionError:189"
    /\ args.sft_type = Some("full")
    /\ args.quantization_bit = Some(4)


\* the object asks for the snapshot of a ckpt_dir that holds no sft_args.json
MissingSnapshot ==
    /\ args.load_args_from_ckpt_dir = Some(TRUE)
    /\ args.ckpt_dir # None
    /\ ~path_exists(path_join(Get(args.ckpt_dir), "sft_args.json"))

\* C15: when InferArguments resolution finds no sft_args.json in ckpt_dir,
\* load_from_ckpt_dir changes no field and raises nothing, and the resolution
\* runs to completion without raising for every input that is valid
\* otherwise, a model_type left absent to be inherited included.
C15_MissingSnapshotCompletes ==
    [][/\ (InferIdentifyStep /\ MissingSnapshot) =>
              args' = args /\ apc' = "identified"
       /\ (/\ InferFinishStep
           /\ MissingSnapshot
           /\ \/ args.model_type = None
              \/ Get(args.model_type) \in DOMAIN MODEL_MAPPING)
              => apc' = "resolved"]_vars


\* the dataset-related fields
DatasetKeys ==
    {"dataset", "dataset_seed", "dataset_test_ratio",
     "check_dataset_strategy", "custom_train_dataset_path",
     "custom_val_dataset_path"}

\* C16: with eval_human true, load_from_ckpt_dir leaves every
\* dataset-related field as it was, whatever the snapshot holds.
C16_EvalHumanKeepsDataset ==
    [][(/\ InferIdentifyStep
        /\ args.load_args_from_ckpt_dir = Some(TRUE)
        /\ args.eval_human = Some(TRUE))
       => \A k \in DatasetKeys : args'[k] = args[k]]_vars

\* a load with eval_human took the snapshot's system prompt and left the
\* dataset fields at values the snapshot does not hold
C16_Witness ==
    /\ apc = "identified"
    /\ args.eval_human = Some(TRUE)
    /\ args.load_args_from_ckpt_dir = Some(TRUE)
    /\ args.ckpt_dir = Some(Path("abs", "cwd/ckpt-full"))
    /\ args.system = SnapshotFull.system
    /\ args.dataset = None
    /\ args.dataset_seed # SnapshotFull.dataset_seed
    /\ args.dataset_test_ratio # SnapshotFull.dataset_test_ratio


\* C17: a successful set_model_type call without an explicit revision gives
\* the object the registry entry's current revision and leaves the registry
\* as it was; one with explicit revision R writes R into the entry, where
\* every later call finds it; after either, the object's model_revision is
\* the entry's revision for its model_type, the entry is otherwise as before
\* and the entries of the other models are unchanged.
C17_RevisionPinned ==
    [][(apc = "new" /\ apc' = "identified") =>
          LET m == Get(args'.model_type)
          IN  /\ m \in DOMAIN MODEL_MAPPING
              /\ DOMAIN MODEL_MAPPING' = DOMAIN MODEL_MAPPING
              /\ IF args.model_revision = None
                 THEN /\ args'.model_revision = Some(MODEL_MAPPING[m].revision)
                      /\ MODEL_MAPPING' = MODEL_MAPPING
                 ELSE /\ args'.model_revision = args.model_revision
                      /\ MODEL_MAPPING'[m].revision = Get(args.model_revision)
              /\ args'.model_revision = Some(MODEL_MAPPING'[m].revision)
              /\ MODEL_MAPPING'[m] =
                     [MODEL_MAPPING[m] EXCEPT
                         !.revision = MODEL_MAPPING'[m].revision]
              /\ \A k \in DOMAIN MODEL_MAPPING \ {m} :
                     MODEL_MAPPING'[k] = MODEL_MAPPING[k]]_vars

\* after calls that pinned two models to different revisions, a call for one
\* of them obtained its pinned revision, the other entry keeping its own
C17_Witness ==
    /\ apc = "identified"
    /\ args.model_type = Some("qwen-7b-chat")
    /\ args.model_revision = Some("v9")
    /\ MODEL_MAPPING["qwen-7b-chat"].revision = "v9"
    /\ MODEL_MAPPING["qwen-7b-chat-int4"].revision = "v8"
    /\ MODEL_MAPPING["chatglm3-6b"] = InitialModelMapping["chatglm3-6b"]


\* C18: running handle_compatibility and handle_path a second time, on the
\* object they normalized, raises nothing and changes no field.
C18_NormalizerIdempotent ==
    [][(apc = "normalized" /\ apc' # "normalized") =>
          /\ apc' = "renormalized"
          /\ args' = args
          /\ warnings' = warnings
          /\ MODEL_MAPPING' = MODEL_MAPPING]_vars

\* the second run met a split dataset, a rewritten template alias and an
\* expanded path
C18_Witness ==
    /\ apc = "renormalized"
    /\ args.dataset = Some(<< <<"alpaca-en">>, <<"alpaca-zh">> >>)
    /\ args.template_type = Some("chatml")
    /\ args.model_cache_dir = Some(Path("abs", "home/u/cache"))


\* C19: after an SftArguments resolution completes without error,
\* learning_rate, only_save_model, save_steps, eval_batch_size, logging_dir,
\* report_to, lora_target_modules and dataset are not None, and dtype,
\* bnb_4bit_comp_dtype and template_type are no longer 'AUTO'.
C19_DerivedFieldsSet ==
    (apc = "resolved" /\ cls = "Sft") =>
        /\ \A k \in {"learning_rate", "only_save_model", "save_steps",
                     "eval_batch_size", "logging_dir", "report_to",
                     "lora_target_modules", "dataset"} : args[k] # None
        /\ \A k \in {"dtype", "bnb_4bit_comp_dtype", "template_type"} :
               args[k] # Some("AUTO")


\* the precision select_dtype settles on for a requested dtype d and a
\* model_type mt, by the stated precedence
PrecedenceDtype(d, mt) ==
    IF d # "AUTO" THEN d
    ELSE IF ~bf16_supported THEN "fp16"
    ELSE IF HasIntSuffix(mt) /\ MODEL_MAPPING[mt].torch_dtype # None
    THEN dtype_mapping[Get(MODEL_MAPPING[mt].torch_dtype)]
    ELSE "bf16"

\* a step in which select_dtype returned and its result was assigned
SelectDtypeStep == args # <<>> /\ args.torch_dtype = None
                       /\ args'.torch_dtype # None

\* C22: select_dtype resolves 'AUTO' to fp16 when the hardware lacks bf16,
\* else to the dtype of the registry entry of an int4/int8 model_type that
\* has one, else to bf16; an explicitly requested fp16, bf16 or fp32 stays
\* in args.dtype, bf16 even without hardware support; the returned dtype is
\* one of float16, bfloat16, float32 and fp16 and bf16 are never both true.
C22_DtypePrecedence ==
    [][SelectDtypeStep =>
          /\ args'.dtype = Some(PrecedenceDtype(Get(args.dtype),
                                                Get(args'.model_type)))
          /\ Get(args'.torch_dtype) \in TorchFloats
          /\ cls = "Sft" =>
                 /\ args'.fp16 \in {Some(TRUE), Some(FALSE)}
                 /\ args'.bf16 \in {Some(TRUE), Some(FALSE)}
                 /\ ~(Get(args'.fp16) /\ Get(args'.bf16))]_vars

\* an explicit bf16 was kept on hardware without bf16 support
C22_Witness ==
    /\ apc = "resolved"
    /\ ~bf16_supported
    /\ args.dtype = Some("bf16")
    /\ args.torch_dtype = Some("bfloat16")
    /\ "support_bf16" \in warnings

(***************************************************************************)
(* Distributed resolution: properties.                                     *)
(***************************************************************************)
\* the ranks that have left the broadcast of line 178
PastBroadcast == {r \in DOMAIN proc : proc[r].pc \in {"l180", "resolved"}}

\* the ranks that have run the lines after the broadcast
RanAfter == {r \in DOMAIN proc : proc[r].pc = "resolved"}

\* C6: in a distributed launch a rank leaves the broadcast only once every
\* rank has entered it, and from then on its output_dir is the string rank 0
\* sent; all ranks that end the resolution hold that output_dir, and a
\* logging_dir that was not supplied is derived from it.
C6_SameOutputDir ==
    /\ \A r \in PastBroadcast :
          /\ bcast.entered = Ranks(topo)
          /\ proc[r].a.output_dir = bcast.value
          /\ proc[r].a.output_dir = proc[0].a.output_dir
    /\ \A r \in RanAfter :
          \/ proc[r].a.logging_dir = Some(Path("abs", "cwd/logs"))
          \/ proc[r].a.logging_dir =
                 Some(path_join(Get(proc[0].a.output_dir), "runs"))

\* several ranks have ended the resolution with the versioned directory that
\* only rank 0 computed
C6_Witness ==
    /\ WorldSize(topo) > 2
    /\ RanAfter = Ranks(topo)
    /\ \E ver \in Versions :
          \A r \in Ranks(topo) :
              proc[r].a.output_dir =
                  Some(Path("abs", "cwd/output/qwen-7b-chat/" \o ver))

\* the ranks whose configuration asks for gloo together with quantization
GlooQuantized ==
    {r \in DOMAIN proc : /\ proc[r].a.ddp_backend = Some("gloo")
                         /\ proc[r].a.quantization_bit # Some(0)}

\* C23: in a distributed launch a rank resolving SftArguments with
\* ddp_backend 'gloo' and a quantization_bit other than 0 fails with the
\* ValueError of line 172 before init_process_group and before the
\* output_dir broadcast: it never initialises the process group and never
\* enters the broadcast.
C23_GlooFailsFast ==
    \A r \in GlooQuantized :
        /\ ~proc[r].pg
        /\ r \notin bcast.entered
        /\ proc[r].pc \in {"l155", "failed"}
        /\ proc[r].pc = "failed" => proc[r].err = "ValueError:172"

\* every rank of a launch of several ranks has failed on the gloo check, and
\* nobody is in the broadcast
C23_Witness ==
    /\ Cardinality(DOMAIN proc) > 1
    /\ GlooQuantized = DOMAIN proc
    /\ \A r \in DOMAIN proc : /\ proc[r].pc = "failed"
                              /\ proc[r].err = "ValueError:172"
                              /\ ~proc[r].pg
    /\ bcast.entered = {}


(***************************************************************************)
(* Label rendering: properties.                                            *)
(***************************************************************************)
\* the length of the maximal run that starts the sequence l
RECURSIVE FirstRun(_)
FirstRun(l) ==
    IF Len(l) <= 1 THEN Len(l)
    ELSE IF (l[1] = Masked) = (l[2] = Masked) THEN 1 + FirstRun(Tail(l))
    ELSE 1

\* the run-length rendering: the maximal runs in order, a masked run of
\* length N as its marker, an unmasked run as the decode of its tokens
RECURSIVE RunLengthRendering(_)
RunLengthRendering(l) ==
    IF l = <<>> THEN <<>>
    ELSE LET n == FirstRun(l)
             run == SubSeq(l, 1, n)
             rest == SubSeq(l, n + 1, Len(l))
         IN  (IF l[1] = Masked THEN marker(n) ELSE decode(run))
                 \o RunLengthRendering(rest)

\* C12: for every label sequence the call returns, without raising, the
\* run-length rendering of the sequence: one marker '[-100 * N]' for each
\* maximal masked run of length N and the decode of exactly its tokens for
\* each maximal unmasked run, in the original order; the empty sequence
\* gives the empty string.
C12_RunLength ==
    gpc # "idle" =>
        /\ gpc = "returned"
        /\ labels_str = RunLengthRendering(labels)
        /\ (labels = <<>> => labels_str = <<>>)
        /\ ((labels # <<>> /\ \A i \in DOMAIN labels : labels[i] = Masked)
               => labels_str = marker(Len(labels)))
        /\ ((\A i \in DOMAIN labels : labels[i] # Masked)
               => labels_str = decode(labels))

\* the call rendered a masked run of length one, an unmasked run, and a
\* masked run that ends the sequence
C12_Witness ==
    /\ gpc = "returned"
    /\ Len(labels) = MaxLabels
    /\ labels[1] = Masked
    /\ labels[2] # Masked
    /\ labels[MaxLabels] = Masked
    /\ labels_str[1] = [mask |-> 1]
    /\ labels_str[Len(labels_str)] = [mask |-> 1]

(***************************************************************************)
(* inference and inference_stream: properties.                             *)
(***************************************************************************)
\* C21: for the same query, starting history and generated tokens,
\* inference and a fully consumed inference_stream give the same response
\* and the same final history, the starting history extended by exactly
\* the turn (query, response), whatever the generated tokens are.
C21_StreamEquivalent ==
    (spc = "done" /\ ires # None) =>
        LET h0 == IF start = None THEN <<>> ELSE Get(start)
            r == Get(ires)
        IN  /\ r.history = Append(h0, <<iquery, r.response>>)
            /\ yielded # None
            /\ Get(yielded).response = r.response
            /\ Get(yielded).history = r.history
            /\ shistory = r.history

====
